---- MODULE Spec2Model ----
(***************************************************************************)
(* Model of the grid / graph infrastructure of the Advent of Code 2021     *)
(* solutions and of the two algorithms built on it: the day-15 risk        *)
(* path-finder (src/src/day15.rs) and the day-12 cave path enumeration     *)
(* (src/src/day12.rs).                                                     *)
(*                                                                         *)
(* Each subsystem has its own specification over the shared variables:     *)
(*   SpecRisk   day 15: RiskMap::from, expand_5x, lowest_risk              *)
(*   SpecGrid   UnsizedGrid / SizedGrid construction, get and get_mut      *)
(*   SpecGraph  utils/graph.rs: add_node, add_edge, add_edge_by_data       *)
(*   SpecCave   day 12: part1 (distinct_path_once) and part2 (one thread   *)
(*              per small cave running distinct_path_with_options)         *)
(*   FairCaveTerm  day 12 on graphs that may join two big caves, with the  *)
(*              fairness of a running program                              *)
(***************************************************************************)
EXTENDS Integers, Sequences, FiniteSets, Bags, TLC

VARIABLES
    \* ---- day 15 -------------------------------------------------------
    input,      \* the parsed puzzle input: rows of digits
    rpc,        \* position of the day-15 run
    matrix,     \* RiskMap.grid.matrix : rows of cells [risk, min]
    end_coord,  \* RiskMap.end_coord
    heap,       \* lowest_risk: BinaryHeap<Reverse<(MinRisk, Coordinate)>>, a bag
    cur,        \* lowest_risk: the popped (acc_risk, coord)
    dir,        \* lowest_risk: index into Direction::direction_list()
    result,     \* lowest_risk: the returned value
    popped,     \* lowest_risk: the coordinates popped so far in this call
    \* ---- grid construction and access -------------------------------
    ginput,     \* the rows handed to a grid constructor
    ctor,       \* the constructor used
    gpc,        \* "input", "built" or "rejected" (the constructor panicked)
    gmatrix,    \* the matrix of the grid built
    lastGet,    \* the last get / get_mut call: <<method, position, outcome>>
    iterated,   \* what each iter() traversal so far yielded, in order
    iterated_mut, \* what the iter_mut() traversal yielded, once made
    \* ---- utils/graph.rs ----------------------------------------------
    graph,      \* Graph { nodes, edges }
    added,      \* the add_edge calls made so far: <<from, to>>, in order
    returned,   \* the add_node calls made so far: [index, data, before]
    found,      \* the last find_node_index call: <<predicate, outcome, nodes then>>
    named,      \* the data at the two ends of the edges added so far, in order
    \* ---- day 12 -------------------------------------------------------
    cave_map,   \* CaveMap { map, start, end }
    part,       \* 1 or 2: which of part1 / part2 runs
    cpc,        \* position of the main thread
    frames,     \* part1: the call stack of distinct_path_once
    small_caves_stack, \* part1: the Vec<NodePtr> handed down the recursion
    workers,    \* part2: the threads spawned in the scope, in spawn order
    spawn_i,    \* part2: the position of the iterator over get_nodes()
    channel,    \* part2: the paths sent and not yet received
    builder,    \* part2: PathsBuilder { final_paths, tx }
    cresult,    \* the value part1 / part2 returned
    \* ---- utils/helper_utils.rs ---------------------------------------
    expected,   \* run_part: the expected value passed in
    part_result, \* run_part: the result the day's function computed
    upc,        \* position of run_part
    exit_status, \* the status the process terminated with, once it has
    \* ---- day 18 -------------------------------------------------------
    snail_input, \* the tokens of the SnailFish before split() or +=
    snail_rhs,  \* add_assign: the tokens of rhs
    depth,      \* explode: depth
    exploded,   \* explode: exploded
    tokens,     \* SnailFish.tokens
    index,      \* split: index
    was_split,  \* split: was_split
    spc,        \* position of split
    split_ret,  \* the value split() returned
    \* ---- day 21 -------------------------------------------------------
    CURRENT_ID, \* static CURRENT_ID: AtomicU8
    pawns,      \* the Pawns alive: a bag of [player_id, made_by]
    give,       \* per thread: the curr_id loaded by a give_id under way
    new_ret     \* the last return of Pawn::new: <<"Ok" or "Err", the Pawns made by
                \* Pawn::new alive at the return, the ID handed out>>

riskVars == <<input, rpc, matrix, end_coord, heap, cur, dir, result, popped>>
gridVars == <<ginput, ctor, gpc, gmatrix, lastGet, iterated, iterated_mut>>
graphVars == <<graph, added, returned, found, named>>
caveVars == <<cave_map, part, cpc, frames, small_caves_stack, workers, spawn_i,
              channel, builder, cresult>>
utilsVars == <<expected, part_result, upc, exit_status>>
snailVars == <<snail_input, snail_rhs, depth, exploded, tokens, index, was_split,
               spc, split_ret>>
pawnVars == <<CURRENT_ID, pawns, give, new_ret>>
vars == <<riskVars, gridVars, graphVars, caveVars, utilsVars, snailVars, pawnVars>>

notRiskVars == <<gridVars, graphVars, caveVars, utilsVars, snailVars, pawnVars>>
notGridVars == <<riskVars, graphVars, caveVars, utilsVars, snailVars, pawnVars>>
notGraphVars == <<riskVars, gridVars, caveVars, utilsVars, snailVars, pawnVars>>
notCaveVars == <<riskVars, gridVars, graphVars, utilsVars, snailVars, pawnVars>>
notUtilsVars == <<riskVars, gridVars, graphVars, caveVars, snailVars, pawnVars>>
notSnailVars == <<riskVars, gridVars, graphVars, caveVars, utilsVars, pawnVars>>
notPawnVars == <<riskVars, gridVars, graphVars, caveVars, utilsVars, snailVars>>

-----------------------------------------------------------------------------
(* Bounds of the model *)

\* day 21: at most MaxThreads threads call Pawn::new, and at most MaxPawns
\* Pawns are alive or being made at a time
MaxThreads == 2
MaxPawns == 3

\* day 15: the inputs are the rectangular grids of at most MaxRows rows,
\* MaxCols columns and MaxCells cells
MaxRows == 5
MaxCols == 5
MaxCells == 10
\* lowest_risk is run on grids of at most MaxSolveCells cells
MaxSolveCells == 25

\* ... and, with the cost 0 added, those of at most MaxCellsZero cells
MaxCellsZero == 8
\* termination of lowest_risk is checked on grids of at most MaxTermCells cells
MaxTermCells == 6
\* expand_5x after a solve is run on the grids of at most MaxExpandSide rows
\* and columns
MaxExpandSide == 2

\* grids: a constructor is handed at most MaxGridRows rows of at most
\* MaxGridCols cells each
MaxGridRows == 2
MaxGridCols == 2
\* a grid is traversed with iter() at most MaxIterCalls times
MaxIterCalls == 2

\* graphs: at most MaxNodes nodes and MaxGraphEdges edges are added
MaxNodes == 3
MaxGraphEdges == 3

\* day 12: the cave maps have at most MaxCaveEdges connections, and at most
\* MaxTermEdges where two big caves may be joined; a call stack holds at most
\* StackLimit frames of the recursion
MaxCaveEdges == 4
MaxTermEdges == 3
StackLimit == 12

\* the cell costs the inputs are drawn from
RiskValues == {1, 9}
RiskValuesZero == {0, 1, 9}

(* Program constants *)

\* MinRisk::MAX, MinRisk = u16
MinRiskMAX == 65535

-----------------------------------------------------------------------------
(* Generic helpers *)

Some(v) == <<"Some", v>>
None == <<"None">>
Panic == <<"Panic">>
IsSome(o) == o[1] = "Some"
Unwrap(o) == o[2]

\* Vec::contains / Iterator::any over the items of q
SeqContains(q, x) == \E k \in 1..Len(q) : q[k] = x

RECURSIVE Reverse(_)
Reverse(q) == IF q = <<>> THEN <<>> ELSE Append(Reverse(Tail(q)), Head(q))

-----------------------------------------------------------------------------
(* utils/coordinate_system.rs *)

Coordinate_new(x, y) == <<x, y>>

direction_list == <<"North", "East", "South", "West">>

offset(d) ==
    CASE d = "North" -> <<-1, 0>>
      [] d = "East"  -> <<0, 1>>
      [] d = "South" -> <<1, 0>>
      [] d = "West"  -> <<0, -1>>

\* impl Add<Direction> for Coordinate
Coordinate_add(c, d) == <<c[1] + offset(d)[1], c[2] + offset(d)[2]>>

-----------------------------------------------------------------------------
(* utils/grid/unsized_grid.rs : a matrix is a sequence of rows, each a      *)
(* sequence of cells; Coordinate (i, j) addresses matrix[i+1][j+1].         *)

num_rows(m) == Len(m)

\* self.matrix[0].len(): indexes row 0
num_cols(m) == Len(m[1])

is_valid_position(m, p) ==
    /\ p[1] >= 0
    /\ p[2] >= 0
    /\ p[1] < num_rows(m)
    /\ p[2] < num_cols(m)

\* get / get_mut: the slice index panics when row i is shorter than row 0
get(m, p) ==
    IF is_valid_position(m, p)
    THEN IF p[2] + 1 <= Len(m[p[1] + 1])
         THEN Some(m[p[1] + 1][p[2] + 1])
         ELSE Panic
    ELSE None

\* *grid.get_mut(p).unwrap() = v
set_cell(m, p, v) ==
    [m EXCEPT ![p[1] + 1] = [@ EXCEPT ![p[2] + 1] = v]]

from_box(rows) == rows

\* UnsizedGrid::new_with_size(rows, cols, default)
new_with_size(r, c, default) == [i \in 1..r |-> [j \in 1..c |-> default]]

\* the bottom-right coordinate
last_coordinate(m) == Coordinate_new(num_rows(m) - 1, num_cols(m) - 1)

-----------------------------------------------------------------------------
(* day15.rs : RiskMap *)

Cell(risk, min) == [risk |-> risk, min |-> min]

\* RiskMap::new: grid.get_mut(&(0,0)).unwrap().1 = 0; end_coord
RiskMap_new(grid) ==
    LET o == get(grid, Coordinate_new(0, 0))
    IN  IF IsSome(o)
        THEN [tag |-> "Ok",
              grid |-> set_cell(grid, Coordinate_new(0, 0),
                                [Unwrap(o) EXCEPT !.min = 0]),
              end_coord |-> last_coordinate(grid)]
        ELSE [tag |-> "Panic", grid |-> grid, end_coord |-> <<0, 0>>]

\* a conversion that starts every cell at best-known cost 0
RiskMap_from_zero_min(rows) ==
    RiskMap_new(from_box(
        [i \in 1..Len(rows) |->
            [j \in 1..Len(rows[i]) |-> Cell(rows[i][j], 0)]]))

\* impl From<Vec<String>> for RiskMap: every digit d becomes (d, MinRisk::MAX)
RiskMap_from(rows) ==
    RiskMap_new(from_box(
        [i \in 1..Len(rows) |->
            [j \in 1..Len(rows[i]) |-> Cell(rows[i][j], MinRiskMAX)]]))

\* u8 / u16 arithmetic of a release build
WrapU8(n) == n % 256
WrapU16(n) == n % (MinRiskMAX + 1)

\* the risk written by the body of expand_5x's loop for the cell at position
\* (pi, pj) of the new grid, or Panic when the original has no base cell
expand_cell(grid, pi, pj) ==
    LET original_width == num_cols(grid)
        original_height == num_rows(grid)
        base_x == pi % original_width
        base_y == pj % original_height
        target_x == pi \div original_width
        target_y == pj \div original_height
        o == get(grid, Coordinate_new(base_x, base_y))
    IN  IF IsSome(o)
        THEN LET risk == WrapU8(Unwrap(o).risk + target_x + target_y)
             IN  Some(IF risk > 9 THEN risk - 9 ELSE risk)
        ELSE Panic

\* an expand_5x that carries the original's best-known values over
expand_5x_keep_min(grid) ==
    LET r == num_rows(grid) * 5
        c == num_cols(grid) * 5
        cells == [i \in 1..r |-> [j \in 1..c |-> expand_cell(grid, i - 1, j - 1)]]
    IN  IF \E i \in 1..r : \E j \in 1..c : ~IsSome(cells[i][j])
        THEN [tag |-> "Panic", grid |-> grid, end_coord |-> <<0, 0>>]
        ELSE RiskMap_new(
                [i \in 1..r |-> [j \in 1..c |->
                    Cell(Unwrap(cells[i][j]),
                         grid[((i - 1) % num_rows(grid)) + 1]
                             [((j - 1) % num_cols(grid)) + 1].min)]])

\* RiskMap::expand_5x
expand_5x(grid) ==
    LET r == num_rows(grid) * 5
        c == num_cols(grid) * 5
        new_grid == new_with_size(r, c, Cell(0, MinRiskMAX))
        cells == [i \in 1..r |-> [j \in 1..c |-> expand_cell(grid, i - 1, j - 1)]]
    IN  IF \E i \in 1..r : \E j \in 1..c : ~IsSome(cells[i][j])
        THEN [tag |-> "Panic", grid |-> grid, end_coord |-> <<0, 0>>]
        ELSE RiskMap_new(
                [i \in 1..r |-> [j \in 1..c |->
                    [new_grid[i][j] EXCEPT !.risk = Unwrap(cells[i][j])]]])

\* a heap that hands back entries in no particular order
PopCandidatesAny(h) == BagToSet(h)

\* a heap of (Coordinate, MinRisk): an entry of the least coordinate
PopCandidatesByCoordinate(h) ==
    {e \in BagToSet(h) : \A f \in BagToSet(h) :
        \/ e[2][1] < f[2][1]
        \/ e[2][1] = f[2][1] /\ e[2][2] <= f[2][2]}

\* a heap without Reverse: an entry of greatest accumulated risk
PopCandidatesMax(h) ==
    {e \in BagToSet(h) : \A f \in BagToSet(h) : e[1] >= f[1]}

\* heap.pop() of the min-heap: an entry of least accumulated risk; the order
\* among entries of equal risk is left open
PopCandidates(h) ==
    {e \in BagToSet(h) : \A f \in BagToSet(h) : e[1] <= f[1]}

\* a loop that goes on past the end coordinate
ReachedEndNever(coord, end) == FALSE

\* if coord == self.end_coord { return acc_risk; }
ReachedEnd(coord, end) == coord = end

\* a gate that updates whenever the value differs
ImprovesNe(new_risk, min_risk) == new_risk # min_risk

\* the gate of the relaxation: new_risk < *min_risk
Improves(new_risk, min_risk) == new_risk < min_risk

-----------------------------------------------------------------------------
(* day 15: the inputs and the run *)

\* the sample input of the puzzle, ten lines of ten digits
SampleGrid ==
    <<<<1, 1, 6, 3, 7, 5, 1, 7, 4, 2>>,
      <<1, 3, 8, 1, 3, 7, 3, 6, 7, 2>>,
      <<2, 1, 3, 6, 5, 1, 1, 3, 2, 8>>,
      <<3, 6, 9, 4, 9, 3, 1, 5, 6, 9>>,
      <<7, 4, 6, 3, 4, 1, 7, 1, 1, 1>>,
      <<1, 3, 1, 9, 1, 2, 8, 1, 3, 7>>,
      <<1, 3, 5, 9, 9, 1, 2, 4, 2, 1>>,
      <<3, 1, 2, 5, 4, 2, 1, 6, 3, 9>>,
      <<1, 2, 9, 3, 1, 3, 8, 5, 2, 1>>,
      <<2, 3, 1, 1, 9, 4, 4, 5, 8, 1>>>>

RiskShapes ==
    {s \in (1..MaxRows) \X (1..MaxCols) : s[1] * s[2] <= MaxCells}

RiskInputs ==
    UNION {[1..s[1] -> [1..s[2] ->
                IF s[1] * s[2] <= MaxCellsZero THEN RiskValuesZero ELSE RiskValues]]
           : s \in RiskShapes}

\* the variables of the run_part specification, at rest
IdleUtils ==
    /\ expected = 0
    /\ part_result = 0
    /\ upc = "idle"
    /\ exit_status = None

\* the variables of the day-21 specification, at rest
IdlePawn ==
    /\ CURRENT_ID = 0
    /\ pawns = EmptyBag
    /\ give = [t \in 1..MaxThreads |-> None]
    /\ new_ret = None

\* the variables of the day-18 specification, at rest
IdleSnail ==
    /\ snail_input = <<>>
    /\ snail_rhs = <<>>
    /\ depth = 0
    /\ exploded = FALSE
    /\ tokens = <<>>
    /\ index = 0
    /\ was_split = FALSE
    /\ spc = "idle"
    /\ split_ret = FALSE

\* the variables of the day-12 specification, at rest
IdleCave ==
    /\ cave_map = [map |-> [nodes |-> <<>>, edges |-> <<>>], start |-> 0, end |-> 0]
    /\ part = 0
    /\ cpc = "idle"
    /\ frames = <<>>
    /\ small_caves_stack = <<>>
    /\ workers = <<>>
    /\ spawn_i = 0
    /\ channel = <<>>
    /\ builder = [final_paths |-> {}, tx |-> FALSE]
    /\ cresult = 0

\* the variables of the graph specification, at rest
IdleGraph ==
    /\ graph = [nodes |-> <<>>, edges |-> <<>>]
    /\ added = <<>>
    /\ returned = <<>>
    /\ found = <<>>
    /\ named = <<>>

\* the variables of the grid specification, at rest
IdleGrid ==
    /\ ginput = <<>>
    /\ ctor = "none"
    /\ gpc = "idle"
    /\ gmatrix = <<>>
    /\ lastGet = <<>>
    /\ iterated = <<>>
    /\ iterated_mut = None

InitRisk ==
    /\ IdlePawn
    /\ IdleGrid
    /\ IdleUtils
    /\ IdleSnail
    /\ IdleGraph
    /\ IdleCave
    /\ input \in RiskInputs
    /\ rpc = "ready"
    /\ matrix = RiskMap_from(input).grid
    /\ end_coord = RiskMap_from(input).end_coord
    /\ heap = EmptyBag
    /\ cur = <<0, <<0, 0>>>>
    /\ dir = 0
    /\ result = 0
    /\ popped = {}

\* part2: risk_map.expand_5x()
Expand ==
    /\ rpc = "ready"
    /\ LET e == expand_5x(matrix)
       IN  IF e.tag = "Ok"
           THEN /\ rpc' = "expanded"
                /\ matrix' = e.grid
                /\ end_coord' = e.end_coord
           ELSE /\ rpc' = "panic"
                /\ UNCHANGED <<matrix, end_coord>>
    /\ UNCHANGED <<input, heap, cur, dir, result, popped>>
    /\ UNCHANGED notRiskVars

\* lowest_risk: the heap is created and the start pushed
LowestRiskStart ==
    /\ rpc \in {"ready", "expanded"}
    /\ num_rows(matrix) * num_cols(matrix) <= MaxSolveCells \/ input = SampleGrid
    /\ heap' = SetToBag({<<0, Coordinate_new(0, 0)>>})
    /\ popped' = {}
    /\ rpc' = "loop"
    /\ UNCHANGED <<input, matrix, end_coord, cur, dir, result>>
    /\ UNCHANGED notRiskVars

\* lowest_risk: while let Some(..) = heap.pop(), and the test for the end
Pop ==
    /\ rpc = "loop"
    /\ IF heap = EmptyBag
       THEN /\ rpc' = "unreachable"
            /\ UNCHANGED <<heap, cur, dir, result, popped>>
       ELSE \E e \in PopCandidates(heap) :
            /\ heap' = heap (-) SetToBag({e})
            /\ popped' = popped \cup {e[2]}
            /\ IF ReachedEnd(e[2], end_coord)
               THEN /\ result' = e[1]
                    /\ rpc' = "returned"
                    /\ UNCHANGED <<cur, dir>>
               ELSE /\ cur' = e
                    /\ dir' = 1
                    /\ rpc' = "dirs"
                    /\ UNCHANGED result
    /\ UNCHANGED <<input, matrix, end_coord>>
    /\ UNCHANGED notRiskVars

\* lowest_risk: one iteration of the loop over the four directions
Relax ==
    /\ rpc = "dirs"
    /\ LET new_coord == Coordinate_add(cur[2], direction_list[dir])
           o == get(matrix, new_coord)
       IN  IF IsSome(o)
           THEN LET new_risk == WrapU16(cur[1] + Unwrap(o).risk)
                IN  IF Improves(new_risk, Unwrap(o).min)
                    THEN /\ matrix' = set_cell(matrix, new_coord,
                                        [Unwrap(o) EXCEPT !.min = new_risk])
                         /\ heap' = heap (+) SetToBag({<<new_risk, new_coord>>})
                    ELSE UNCHANGED <<matrix, heap>>
           ELSE UNCHANGED <<matrix, heap>>
    /\ IF dir = Len(direction_list)
       THEN rpc' = "loop" /\ dir' = 0
       ELSE rpc' = "dirs" /\ dir' = dir + 1
    /\ UNCHANGED <<input, end_coord, cur, result, popped>>
    /\ UNCHANGED notRiskVars

NextRisk == Expand \/ LowestRiskStart \/ Pop \/ Relax

SpecRisk == InitRisk /\ [][NextRisk]_vars

\* part1 alone, on the grids of at most MaxTermCells cells
TermInputs == {g \in RiskInputs : Len(g) * Len(g[1]) <= MaxTermCells}

InitLowest ==
    /\ IdlePawn
    /\ IdleGrid
    /\ IdleUtils
    /\ IdleSnail
    /\ IdleGraph
    /\ IdleCave
    /\ input \in TermInputs
    /\ rpc = "ready"
    /\ matrix = RiskMap_from(input).grid
    /\ end_coord = RiskMap_from(input).end_coord
    /\ heap = EmptyBag
    /\ cur = <<0, <<0, 0>>>>
    /\ dir = 0
    /\ result = 0
    /\ popped = {}

NextLowest == LowestRiskStart \/ Pop \/ Relax

SpecLowest == InitLowest /\ [][NextLowest]_vars

\* lowest_risk keeps running: a step is taken whenever one is possible
FairLowest == InitLowest /\ [][NextLowest]_vars /\ WF_vars(NextLowest)

\* expand_5x on a risk map that lowest_risk has already run on
ExpandSolved ==
    /\ rpc = "returned"
    /\ LET e == expand_5x(matrix)
       IN  IF e.tag = "Ok"
           THEN /\ rpc' = "expanded"
                /\ matrix' = e.grid
                /\ end_coord' = e.end_coord
           ELSE /\ rpc' = "panic"
                /\ UNCHANGED <<matrix, end_coord>>
    /\ UNCHANGED <<input, heap, cur, dir, result, popped>>
    /\ UNCHANGED notRiskVars

\* part1 and part2 on the sample input
InitSample ==
    /\ IdlePawn
    /\ IdleGrid
    /\ IdleUtils
    /\ IdleSnail
    /\ IdleGraph
    /\ IdleCave
    /\ input = SampleGrid
    /\ rpc = "ready"
    /\ matrix = RiskMap_from(input).grid
    /\ end_coord = RiskMap_from(input).end_coord
    /\ heap = EmptyBag
    /\ cur = <<0, <<0, 0>>>>
    /\ dir = 0
    /\ result = 0
    /\ popped = {}

\* the order of the heap's entries (MinRisk, Coordinate): by risk, then by the
\* coordinate's fields i and j
EntryLeq(e, f) ==
    \/ e[1] < f[1]
    \/ e[1] = f[1] /\ e[2][1] < f[2][1]
    \/ e[1] = f[1] /\ e[2][1] = f[2][1] /\ e[2][2] <= f[2][2]

\* heap.pop() on the sample: any entry of least risk while the grid is the one
\* parsed, the least entry of the heap's order on the expanded grid
PopSample ==
    /\ Pop
    /\ (num_rows(matrix) > Len(SampleGrid) /\ heap # EmptyBag) =>
            \E e \in BagToSet(heap) :
                /\ \A f \in BagToSet(heap) : EntryLeq(e, f)
                /\ heap' = heap (-) SetToBag({e})

NextSample == Expand \/ LowestRiskStart \/ PopSample \/ Relax

SpecSample == InitSample /\ [][NextSample]_vars

\* the grids of at most MaxExpandSide rows and columns
ExpandInputs ==
    UNION {[1..r -> [1..c -> RiskValues]] :
            r \in 1..MaxExpandSide, c \in 1..MaxExpandSide}

InitExpand ==
    /\ IdlePawn
    /\ IdleGrid
    /\ IdleUtils
    /\ IdleSnail
    /\ IdleGraph
    /\ IdleCave
    /\ input \in ExpandInputs
    /\ rpc = "ready"
    /\ matrix = RiskMap_from(input).grid
    /\ end_coord = RiskMap_from(input).end_coord
    /\ heap = EmptyBag
    /\ cur = <<0, <<0, 0>>>>
    /\ dir = 0
    /\ result = 0
    /\ popped = {}

NextExpand == Expand \/ ExpandSolved \/ LowestRiskStart \/ Pop \/ Relax

SpecExpand == InitExpand /\ [][NextExpand]_vars

-----------------------------------------------------------------------------
(* utils/grid/sized_grid.rs : SizedGrid<T, ROW, COL>; the matrix is        *)
(* [[T; COL]; ROW], so its shape is fixed by the type.                      *)

SizedGrid_new(grid) == grid

\* ROW and COL of the type of a [[T; COL]; ROW] value
ROW(m) == Len(m)
COL(m) == IF Len(m) = 0 THEN 0 ELSE Len(m[1])

sized_is_valid_position(m, p) ==
    p[1] >= 0 /\ p[2] >= 0 /\ p[1] < ROW(m) /\ p[2] < COL(m)

sized_get(m, p) ==
    IF sized_is_valid_position(m, p)
    THEN Some(m[p[1] + 1][p[2] + 1])
    ELSE None

\* UnsizedGrid::new: the two assertions, then the grid
UnsizedGrid_new(grid) ==
    IF Len(grid) > 0 /\ Len(grid[1]) > 0
    THEN [tag |-> "Ok", grid |-> grid]
    ELSE [tag |-> "Panic", grid |-> <<>>]

-----------------------------------------------------------------------------
(* grids: construction from rows, then get / get_mut *)

IsRectangular(rows) == \A i \in 1..Len(rows) : Len(rows[i]) = Len(rows[1])

GridValues == {1, 2}

GridRow == UNION {[1..n -> GridValues] : n \in 0..MaxGridCols}

GridInputs == UNION {[1..n -> GridRow] : n \in 0..MaxGridRows}

Constructors ==
    {"UnsizedGrid::new", "UnsizedGrid::from_box", "SizedGrid::new", "RiskMap::from"}

\* the variables of the day-15 specification, at rest
IdleRisk ==
    /\ input = <<>>
    /\ rpc = "idle"
    /\ matrix = <<>>
    /\ end_coord = <<0, 0>>
    /\ heap = EmptyBag
    /\ cur = <<0, <<0, 0>>>>
    /\ dir = 0
    /\ result = 0
    /\ popped = {}

InitGrid ==
    /\ IdlePawn
    /\ IdleRisk
    /\ IdleUtils
    /\ IdleSnail
    /\ IdleGraph
    /\ IdleCave
    /\ ginput \in GridInputs
    /\ ctor \in Constructors
    \* a [[T; COL]; ROW] value has rows of one length
    /\ ctor = "SizedGrid::new" => IsRectangular(ginput)
    /\ gpc = "input"
    /\ gmatrix = <<>>
    /\ lastGet = <<>>
    /\ iterated = <<>>
    /\ iterated_mut = None

\* the constructor runs on the rows
Construct ==
    /\ gpc = "input"
    /\ LET built ==
            CASE ctor = "UnsizedGrid::new" -> UnsizedGrid_new(ginput)
              [] ctor = "UnsizedGrid::from_box" ->
                    [tag |-> "Ok", grid |-> from_box(ginput)]
              [] ctor = "SizedGrid::new" ->
                    [tag |-> "Ok", grid |-> SizedGrid_new(ginput)]
              [] ctor = "RiskMap::from" ->
                    [tag |-> RiskMap_from(ginput).tag,
                     grid |-> RiskMap_from(ginput).grid]
       IN  IF built.tag = "Ok"
           THEN gpc' = "built" /\ gmatrix' = built.grid
           ELSE gpc' = "rejected" /\ gmatrix' = <<>>
    /\ UNCHANGED <<ginput, ctor, lastGet, iterated, iterated_mut>>
    /\ UNCHANGED notGridVars

GetPositions ==
    {Coordinate_new(i, j) : i \in (-1)..(MaxGridRows + 1), j \in (-1)..(MaxGridCols + 1)}

\* grid.get(position) and grid.get_mut(position): the same test and index
Get ==
    /\ gpc = "built"
    /\ \E method \in {"get", "get_mut"}, p \in GetPositions :
        lastGet' = <<method, p,
                     IF ctor = "SizedGrid::new"
                     THEN sized_get(gmatrix, p)
                     ELSE get(gmatrix, p)>>
    /\ UNCHANGED <<ginput, ctor, gpc, gmatrix, iterated, iterated_mut>>
    /\ UNCHANGED notGridVars

NextGrid == Construct \/ Get

SpecGrid == InitGrid /\ [][NextGrid]_vars

-----------------------------------------------------------------------------
(* utils/grid/mod.rs : iterators.  An iterator is its fields; a traversal  *)
(* is next() called until it returns None, the items kept in order.         *)

get_row(m, row) == m[row + 1]

GridIter_new == [row |-> 0]

\* a RowIter that yields the position as (col, row)
RowIter_next_transposed(it) ==
    IF it.col < Len(it.row_item)
    THEN [item |-> Some(<<Coordinate_new(it.col, it.row), it.row_item[it.col + 1]>>),
          it |-> [it EXCEPT !.col = @ + 1]]
    ELSE [item |-> None, it |-> it]

\* impl Iterator for RowIter: next
RowIter_next(it) ==
    IF it.col < Len(it.row_item)
    THEN [item |-> Some(<<Coordinate_new(it.row, it.col), it.row_item[it.col + 1]>>),
          it |-> [it EXCEPT !.col = @ + 1]]
    ELSE [item |-> None, it |-> it]

\* impl Iterator for GridIter: next
GridIter_next(m, it) ==
    IF it.row < num_rows(m)
    THEN [item |-> Some([row_item |-> get_row(m, it.row), row |-> it.row, col |-> 0]),
          it |-> [it EXCEPT !.row = @ + 1]]
    ELSE [item |-> None, it |-> it]

\* for pair in row_iter { .. }
RECURSIVE RowIter_collect(_)
RowIter_collect(it) ==
    LET n == RowIter_next(it)
    IN  IF n.item = None
        THEN <<>>
        ELSE <<Unwrap(n.item)>> \o RowIter_collect(n.it)

\* for row_iter in grid.iter() { for pair in row_iter { .. } }
RECURSIVE GridIter_collect(_, _)
GridIter_collect(m, it) ==
    LET n == GridIter_next(m, it)
    IN  IF n.item = None
        THEN <<>>
        ELSE RowIter_collect(Unwrap(n.item)) \o GridIter_collect(m, n.it)

\* a &mut [T] into row `row` of the matrix: the cells at the 0-based
\* offsets lo .. hi - 1; a &mut T is the address <<row, offset>> of a cell
SliceMut(m, row) == [row |-> row, lo |-> 0, hi |-> Len(m[row + 1])]

\* <[T]>::split_first_mut
split_first_mut(items) ==
    IF items.lo < items.hi
    THEN Some(<<(<<items.row, items.lo>>), [items EXCEPT !.lo = @ + 1]>>)
    ELSE None

\* RowIterMut::new(row_item, row)
RowIterMut_new(row_item, row) == [row_item |-> row_item, row |-> row, col |-> 0]

\* a RowIterMut that leaves col as it is
RowIterMut_next_same_col(it) ==
    LET split == split_first_mut(it.row_item)
    IN  IF IsSome(split)
        THEN [item |-> Some(<<Coordinate_new(it.row, it.col), Unwrap(split)[1]>>),
              it |-> [it EXCEPT !.row_item = Unwrap(split)[2]]]
        ELSE [item |-> None, it |-> it]

\* impl Iterator for RowIterMut: next
RowIterMut_next(it) ==
    LET split == split_first_mut(it.row_item)
    IN  IF IsSome(split)
        THEN [item |-> Some(<<Coordinate_new(it.row, it.col), Unwrap(split)[1]>>),
              it |-> [it EXCEPT !.row_item = Unwrap(split)[2], !.col = @ + 1]]
        ELSE [item |-> None, it |-> [it EXCEPT !.row_item.lo = it.row_item.hi]]

RECURSIVE RowIterMut_collect(_)
RowIterMut_collect(it) ==
    LET n == RowIterMut_next(it)
    IN  IF n.item = None
        THEN <<>>
        ELSE <<Unwrap(n.item)>> \o RowIterMut_collect(n.it)

\* impl Iterator for GridIterMut over grid.matrix.iter_mut().enumerate(),
\* every row iterator run to its end; `row` is the position of enumerate
RECURSIVE GridIterMut_collect(_, _)
GridIterMut_collect(m, row) ==
    IF row < Len(m)
    THEN RowIterMut_collect(RowIterMut_new(SliceMut(m, row), row))
         \o GridIterMut_collect(m, row + 1)
    ELSE <<>>

\* grid.iter(), traversed to the end
Iter ==
    /\ gpc = "built"
    /\ Len(iterated) < MaxIterCalls
    /\ iterated' = Append(iterated, GridIter_collect(gmatrix, GridIter_new))
    /\ UNCHANGED <<ginput, ctor, gpc, gmatrix, lastGet, iterated_mut>>
    /\ UNCHANGED notGridVars

\* grid.iter_mut(), traversed to the end
IterMut ==
    /\ gpc = "built"
    /\ iterated_mut = None
    /\ iterated_mut' = Some(GridIterMut_collect(gmatrix, 0))
    /\ UNCHANGED <<ginput, ctor, gpc, gmatrix, lastGet, iterated>>
    /\ UNCHANGED notGridVars

NextIter == Construct \/ Iter \/ IterMut

SpecIter == InitGrid /\ [][NextIter]_vars

-----------------------------------------------------------------------------
(* grids: the properties *)

\* C3 (as claimed): on every grid a constructor built, get and get_mut
\* return Some of the cell at row i, column j iff 0 <= i < num_rows and
\* 0 <= j < num_cols, None otherwise, and never panic.
C3_GetIffInBounds ==
    (gpc = "built" /\ lastGet # <<>>) =>
        LET p == lastGet[2]
            r == lastGet[3]
            inside == /\ 0 <= p[1] /\ p[1] < Len(gmatrix)
                      /\ 0 <= p[2] /\ p[2] < Len(gmatrix[1])
        IN  /\ r # Panic
            /\ inside => r = Some(gmatrix[p[1] + 1][p[2] + 1])
            /\ ~inside => r = None

\* C4 (as claimed): construction from rows is rejected whenever a row's
\* length differs from the first row's or the input is empty, and no
\* constructor yields a grid whose rows have unequal lengths.
C4_RaggedOrEmptyRejected ==
    /\ (gpc # "input" /\ (Len(ginput) = 0 \/ ~IsRectangular(ginput)))
            => gpc = "rejected"
    /\ gpc = "built" => IsRectangular(gmatrix)

\* C14: every iter() traversal of a grid with R rows and C columns yields
\* R*C pairs, the k-th (from 0) being the coordinate (k div C, k mod C) with
\* the value stored there, so two traversals of the grid yield the same.
C14_IterRowMajor ==
    (gpc = "built" /\ IsRectangular(gmatrix)) =>
        LET R == Len(gmatrix)
            C == IF R = 0 THEN 0 ELSE Len(gmatrix[1])
        IN  /\ \A n \in 1..Len(iterated) :
                /\ Len(iterated[n]) = R * C
                /\ \A k \in 0..(R * C - 1) :
                    iterated[n][k + 1] =
                        <<Coordinate_new(k \div C, k % C),
                          gmatrix[(k \div C) + 1][(k % C) + 1]>>
            /\ \A n, o \in 1..Len(iterated) : iterated[n] = iterated[o]

\* a 2 x 2 grid has been traversed twice, four pairs each time
C14_Witness ==
    /\ gpc = "built"
    /\ Len(gmatrix) = 2
    /\ Len(gmatrix[1]) = 2
    /\ Len(iterated) = 2
    /\ Len(iterated[2]) = 4
    /\ iterated[1][3][1] = Coordinate_new(1, 0)

\* the cells of a matrix, as addresses
CellsOf(m) == UNION {{<<i, j>> : j \in 0..(Len(m[i + 1]) - 1)} : i \in 0..(Len(m) - 1)}

\* C15: a traversal with iter_mut() yields every cell of the grid exactly
\* once, each with its own coordinate, and no two of the references yielded
\* are to the same cell.
C15_IterMutOncePerCell ==
    (gpc = "built" /\ iterated_mut # None) =>
        LET s == Unwrap(iterated_mut)
        IN  /\ \A k \in 1..Len(s) : s[k][1] = Coordinate_new(s[k][2][1], s[k][2][2])
            /\ {s[k][2] : k \in 1..Len(s)} = CellsOf(gmatrix)
            /\ \A k, l \in 1..Len(s) : k # l => s[k][2] # s[l][2]

\* a 2 x 2 grid has been traversed with iter_mut(): four references
C15_Witness ==
    /\ gpc = "built"
    /\ Len(gmatrix) = 2
    /\ Len(gmatrix[1]) = 2
    /\ iterated_mut # None
    /\ Len(Unwrap(iterated_mut)) = 4
    /\ Unwrap(iterated_mut)[4] = <<Coordinate_new(1, 1), (<<1, 1>>)>>

-----------------------------------------------------------------------------
(* utils/graph.rs : Graph<N, E>.  NodeIndex and EdgeIndex are the 0-based   *)
(* positions in the two vectors; nodes[i] is g.nodes[i + 1].                *)

Graph_new == [nodes |-> <<>>, edges |-> <<>>]

num_of_nodes(g) == Len(g.nodes)

\* an add_node that puts the new node in front of the others
add_node_front(g, data) ==
    [graph |-> [g EXCEPT !.nodes =
                    <<[data |-> data, node_index |-> Len(g.nodes),
                       first_edge |-> None]>> \o @],
     index |-> Len(g.nodes)]

\* add_node: the graph after the call and the index returned
add_node(g, data) ==
    LET node_index == Len(g.nodes)
    IN  [graph |-> [g EXCEPT !.nodes =
                        Append(@, [data |-> data, node_index |-> node_index,
                                   first_edge |-> None])],
         index |-> node_index]

get_node_data(g, node_index) == g.nodes[node_index + 1].data

\* an add_edge that appends the new edge without linking the earlier ones
add_edge_unlinked(g, from, to, edge_data) ==
    [nodes |-> [g.nodes EXCEPT ![from + 1].first_edge = Some(Len(g.edges))],
     edges |-> Append(g.edges, [data |-> edge_data, to |-> to, next_edge |-> None])]

\* an add_edge that links the two nodes in both directions
add_edge_undirected(g, from, to, edge_data) ==
    LET n == Len(g.edges)
        nodes1 == [g.nodes EXCEPT ![from + 1].first_edge = Some(n)]
    IN  [nodes |-> [nodes1 EXCEPT ![to + 1].first_edge = Some(n + 1)],
         edges |-> g.edges \o
            <<[data |-> edge_data, to |-> to,
               next_edge |-> g.nodes[from + 1].first_edge],
              [data |-> edge_data, to |-> from,
               next_edge |-> nodes1[to + 1].first_edge]>>]

\* an add_edge that chains the new edge to the edge added last, whatever its
\* source
add_edge_chained(g, from, to, edge_data) ==
    [nodes |-> [g.nodes EXCEPT ![from + 1].first_edge = Some(Len(g.edges))],
     edges |-> Append(g.edges, [data |-> edge_data, to |-> to,
                                next_edge |-> IF g.edges = <<>>
                                              THEN None
                                              ELSE Some(Len(g.edges) - 1)])]

\* add_edge: the new edge is put in front of from's adjacency list
add_edge(g, from, to, edge_data) ==
    LET new_edge_index == Some(Len(g.edges))
    IN  [nodes |-> [g.nodes EXCEPT ![from + 1].first_edge = new_edge_index],
         edges |-> Append(g.edges, [data |-> edge_data, to |-> to,
                                    next_edge |-> g.nodes[from + 1].first_edge])]

\* a scan that starts at the last node: Iterator::rfind
RECURSIVE IterRFind(_, _, _)
IterRFind(nodes, k, find_fn) ==
    IF k < 1
    THEN None
    ELSE IF nodes[k].data \in find_fn
         THEN Some(nodes[k].node_index)
         ELSE IterRFind(nodes, k - 1, find_fn)

\* self.nodes.iter().find(|node| find_fn(&node.data)).map(|node|
\* node.node_index), from position k on; the predicate find_fn is the set of
\* the data it accepts
RECURSIVE IterFind(_, _, _)
IterFind(nodes, k, find_fn) ==
    IF k > Len(nodes)
    THEN None
    ELSE IF nodes[k].data \in find_fn
         THEN Some(nodes[k].node_index)
         ELSE IterFind(nodes, k + 1, find_fn)

\* a find_node_index that returns the last match
find_last_node_index(g, find_fn) == IterRFind(g.nodes, Len(g.nodes), find_fn)

\* find_node_index(find_fn)
find_node_index_fn(g, find_fn) == IterFind(g.nodes, 1, find_fn)

\* a search that does not look at the node added last
find_node_index_stale(g, data) ==
    IterFind(SubSeq(g.nodes, 1, Len(g.nodes) - 1), 1, {data})

\* find_node_index(|node| node == &data): the first node holding data
find_node_index(g, data) == find_node_index_fn(g, {data})

\* add_edge_by_data: both ends found or added, then add_edge
add_edge_by_data(g, from, to, edge_data) ==
    LET f == find_node_index(g, from)
        g1 == IF f = None THEN add_node(g, from).graph ELSE g
        from_index == IF f = None THEN add_node(g, from).index ELSE Unwrap(f)
        t == find_node_index(g1, to)
        g2 == IF t = None THEN add_node(g1, to).graph ELSE g1
        to_index == IF t = None THEN add_node(g1, to).index ELSE Unwrap(t)
    IN  [graph |-> add_edge(g2, from_index, to_index, edge_data),
         from |-> from_index, to |-> to_index,
         calls |->
            (IF f = None
             THEN <<[index |-> from_index, data |-> from, before |-> num_of_nodes(g)]>>
             ELSE <<>>)
            \o (IF t = None
                THEN <<[index |-> to_index, data |-> to, before |-> num_of_nodes(g1)]>>
                ELSE <<>>)]

get_edge(g, edge_index) == g.edges[edge_index + 1]

\* Neighbours::next, run until it returns None: the items yielded from the
\* iterator state `edges`
RECURSIVE Neighbours_collect(_, _)
Neighbours_collect(g, edges) ==
    IF edges = None
    THEN <<>>
    ELSE LET edge == get_edge(g, Unwrap(edges))
         IN  <<edge.to>> \o Neighbours_collect(g, edge.next_edge)

\* neighbours_iter(node_index), collected
neighbours_iter(g, node_index) ==
    Neighbours_collect(g, g.nodes[node_index + 1].first_edge)

-----------------------------------------------------------------------------
(* utils/graph.rs: any sequence of add_node, add_edge, add_edge_by_data *)

NodeData == {"x", "y"}

\* the data named in the calls of a conversion
NamedValues == NodeData \cup {"z"}

InitGraph ==
    /\ IdlePawn
    /\ IdleRisk
    /\ IdleUtils
    /\ IdleSnail
    /\ IdleGrid
    /\ IdleCave
    /\ graph = Graph_new
    /\ added = <<>>
    /\ returned = <<>>
    /\ found = <<>>
    /\ named = <<>>

AddNode ==
    /\ Len(graph.nodes) < MaxNodes
    /\ \E data \in NodeData :
        /\ graph' = add_node(graph, data).graph
        /\ returned' = Append(returned,
                [index |-> add_node(graph, data).index, data |-> data,
                 before |-> num_of_nodes(graph)])
    /\ UNCHANGED <<added, found, named>>
    /\ UNCHANGED notGraphVars

\* the indices handed to add_edge are indices add_node returned
AddEdge ==
    /\ Len(graph.edges) < MaxGraphEdges
    /\ \E from \in 0..(Len(graph.nodes) - 1), to \in 0..(Len(graph.nodes) - 1) :
        /\ graph' = add_edge(graph, from, to, "unit")
        /\ added' = Append(added, <<from, to>>)
        /\ named' = Append(named, <<get_node_data(graph, from),
                                    get_node_data(graph, to)>>)
    /\ UNCHANGED <<returned, found>>
    /\ UNCHANGED notGraphVars

\* add_edge_by_data with both ends named among `values`
AddEdgeByDataOf(values) ==
    /\ Len(graph.edges) < MaxGraphEdges
    /\ \E from \in values, to \in values :
        LET r == add_edge_by_data(graph, from, to, "unit")
        IN  /\ Len(r.graph.nodes) <= MaxNodes
            /\ graph' = r.graph
            /\ added' = Append(added, <<r.from, r.to>>)
            /\ returned' = returned \o r.calls
            /\ named' = Append(named, <<from, to>>)
    /\ UNCHANGED found
    /\ UNCHANGED notGraphVars

AddEdgeByData == AddEdgeByDataOf(NodeData)

\* the calls a conversion makes: any data at either end
AddEdgeByDataNamed == AddEdgeByDataOf(NamedValues)

\* the predicates handed to find_node_index
Predicates == SUBSET NodeData

FindNodeIndex ==
    /\ \E find_fn \in Predicates :
        found' = <<find_fn, find_node_index_fn(graph, find_fn), num_of_nodes(graph)>>
    /\ UNCHANGED <<graph, added, returned, named>>
    /\ UNCHANGED notGraphVars

NextGraph == AddNode \/ AddEdge \/ AddEdgeByData

SpecGraph == InitGraph /\ [][NextGraph]_vars

\* find_node_index called at any time while the graph is built
NextFind == AddNode \/ AddEdgeByData \/ FindNodeIndex

SpecFind == InitGraph /\ [][NextFind]_vars

\* a graph built through add_edge_by_data only, as the From conversions do
NextByData == AddEdgeByDataNamed

SpecByData == InitGraph /\ [][NextByData]_vars

-----------------------------------------------------------------------------
(* utils/graph.rs: the properties *)

\* the targets of the edges added with source n, in the order added
RECURSIVE TargetsFrom(_, _)
TargetsFrom(calls, n) ==
    IF calls = <<>>
    THEN <<>>
    ELSE (IF Head(calls)[1] = n THEN <<Head(calls)[2]>> ELSE <<>>)
         \o TargetsFrom(Tail(calls), n)

\* C10: neighbours_iter(n) yields exactly the target of each edge added
\* with source n, one item per edge, most recently added first.
C10_NeighboursReverseInsertion ==
    \A n \in 0..(Len(graph.nodes) - 1) :
        neighbours_iter(graph, n) = Reverse(TargetsFrom(added, n))

\* three edges added from node 0, to the nodes 1, 2 and 0 in that order, are
\* yielded as 0, 2, 1
C10_Witness ==
    /\ added = <<(<<0, 1>>), (<<0, 2>>), (<<0, 0>>)>>
    /\ neighbours_iter(graph, 0) = <<0, 2, 1>>

\* C11: every add_node call returned the number of nodes there were before
\* it, the indices returned are pairwise distinct, and get_node_data of an
\* index returned by add_node(d) is d after whatever calls came later.
C11_IndicesStable ==
    /\ \A k \in 1..Len(returned) : returned[k].index = returned[k].before
    /\ \A k, l \in 1..Len(returned) :
        k # l => returned[k].index # returned[l].index
    /\ \A k \in 1..Len(returned) :
        /\ returned[k].index < num_of_nodes(graph)
        /\ get_node_data(graph, returned[k].index) = returned[k].data

\* add_node("x") returned 0 and add_node("y") returned 1; two edges later
\* the indices still name the same data
C11_Witness ==
    /\ Len(returned) = 2
    /\ returned[1] = [index |-> 0, data |-> "x", before |-> 0]
    /\ returned[2] = [index |-> 1, data |-> "y", before |-> 1]
    /\ Len(added) = 2
    /\ get_node_data(graph, 0) = "x"
    /\ get_node_data(graph, 1) = "y"

\* C12: a call add_edge(a, b, _) with a # b makes b a neighbour of a, does
\* not make a a neighbour of b, and leaves the neighbour sequence of every
\* node other than a, and the data of every node, as they were.
C12_AddEdgeDirected ==
    [][(/\ Len(added') = Len(added) + 1
        /\ Len(graph'.nodes) = Len(graph.nodes)
        /\ added'[Len(added')][1] # added'[Len(added')][2])
       => LET a == added'[Len(added')][1]
              b == added'[Len(added')][2]
          IN  /\ SeqContains(neighbours_iter(graph', a), b)
              /\ SeqContains(neighbours_iter(graph', b), a)
                    <=> SeqContains(neighbours_iter(graph, b), a)
              /\ \A n \in 0..(Len(graph.nodes) - 1) :
                    /\ n # a => neighbours_iter(graph', n) = neighbours_iter(graph, n)
                    /\ get_node_data(graph', n) = get_node_data(graph, n)]_vars

\* after add_edge(0, 1, _) alone, 1 is a neighbour of 0 and 1 has no
\* neighbour
C12_Witness ==
    /\ added = <<(<<0, 1>>)>>
    /\ neighbours_iter(graph, 0) = <<1>>
    /\ neighbours_iter(graph, 1) = <<>>

\* C13: find_node_index(p) returns None iff no node's data satisfies p, and
\* otherwise the index of the earliest-added node whose data satisfies p
\* (the nodes being those of the graph at the time of the call).
C13_FindFirstMatch ==
    found # <<>> =>
        LET p == found[1]
            hits == {i \in 0..(found[3] - 1) : get_node_data(graph, i) \in p}
        IN  /\ found[2] = None <=> hits = {}
            /\ hits # {} =>
                /\ IsSome(found[2])
                /\ Unwrap(found[2]) \in hits
                /\ \A i \in hits : Unwrap(found[2]) <= i

\* a search that had two nodes to choose from returned the earlier one,
\* which is not node 0
C13_Witness ==
    /\ found # <<>>
    /\ found[2] = Some(1)
    /\ Cardinality({i \in 0..(found[3] - 1) :
                        get_node_data(graph, i) \in found[1]}) = 2

-----------------------------------------------------------------------------
(* day 15: the properties *)

Cells(m) == {<<i, j>> : i \in 0..(num_rows(m) - 1), j \in 0..(num_cols(m) - 1)}

Adjacent(m, c) ==
    {n \in Cells(m) : (IF n[1] > c[1] THEN n[1] - c[1] ELSE c[1] - n[1])
                    + (IF n[2] > c[2] THEN n[2] - c[2] ELSE c[2] - n[2]) = 1}

SetMin(S) == CHOOSE x \in S : \A y \in S : x <= y

\* W is a set of <<cell, cost>> pairs: the cost of a walk from (0,0) to the
\* cell, the sum of the costs of its cells but the first.  ExtendWalks is
\* every walk of W made one step longer.
ExtendWalks(m, W) ==
    UNION {{<<n, p[2] + (m[n[1] + 1][n[2] + 1]).risk>> : n \in Adjacent(m, p[1])}
           : p \in W}

Cheapest(W) == {p \in W : \A q \in W : q[1] = p[1] => p[2] <= q[2]}

\* the least costs of the walks from (0,0) of at most k more steps than W's
RECURSIVE WalkCost(_, _, _)
WalkCost(m, W, k) ==
    IF k = 0
    THEN W
    ELSE WalkCost(m, Cheapest(W \cup ExtendWalks(m, W)), k - 1)

\* the minimum over all paths from (0,0) to the bottom-right cell
MinPathCost(m) ==
    LET target == <<num_rows(m) - 1, num_cols(m) - 1>>
    IN  SetMin({p[2] : p \in {q \in WalkCost(m, {<<(<<0, 0>>), 0>>}, Cardinality(Cells(m))) : q[1] = target}})

\* C1: lowest_risk returns the minimum, over all 4-directional paths from
\* (0,0) to the bottom-right cell, of the sum of the costs of the path's
\* cells excluding the start cell (0 for a 1x1 grid).
C1_LowestRiskIsMinimum ==
    rpc = "returned" => result = MinPathCost(matrix)

\* a run on a grid whose cheapest path has to go north: around the 9s
C1_Witness ==
    /\ rpc = "returned"
    /\ input = <<<<1, 9, 1, 1, 1>>, <<1, 1, 1, 9, 1>>>>
    /\ result = 7

\* C2 (as claimed): expand_5x yields for every rectangular grid with costs in
\* 1..9, square or not, the 5R x 5C grid whose cost at (i, j) is
\* ((orig[i mod R][j mod C] + i div R + j div C - 1) mod 9) + 1.
C2_ExpandFormula ==
    (\A i \in 1..Len(input) : \A j \in 1..Len(input[i]) : input[i][j] \in 1..9)
    =>
    /\ rpc # "panic"
    /\ rpc = "expanded" =>
        LET R == Len(input)
            C == Len(input[1])
        IN  /\ num_rows(matrix) = 5 * R
            /\ \A i \in 0..(5 * R - 1) :
                /\ Len(matrix[i + 1]) = 5 * C
                /\ \A j \in 0..(5 * C - 1) :
                    matrix[i + 1][j + 1].risk =
                        ((input[(i % R) + 1][(j % C) + 1]
                            + (i \div R) + (j \div C) - 1) % 9) + 1

\* C9: during a run of lowest_risk no cell's best-known value increases from
\* one step to the next, and when lowest_risk returns, the best-known value
\* of the bottom-right cell is the returned cost.
C9_BestKnownMonotone ==
    /\ [][(rpc \in {"loop", "dirs"} =>
            \A c \in Cells(matrix) :
                (matrix'[c[1] + 1][c[2] + 1]).min <= (matrix[c[1] + 1][c[2] + 1]).min)]_vars
    /\ [](rpc = "returned" =>
            matrix[end_coord[1] + 1][end_coord[2] + 1].min = result)

\* a finished run in which the target's best-known value was lowered from
\* the sentinel to the positive cost returned
C9_Witness ==
    /\ rpc = "returned"
    /\ result > 0
    /\ matrix[end_coord[1] + 1][end_coord[2] + 1].min = result
    /\ \E c \in Cells(matrix) : matrix[c[1] + 1][c[2] + 1].min = MinRiskMAX

\* C16: in the risk map parsed from the input and in the one expand_5x
\* produces, the best-known value of cell (0,0) is 0 and that of every other
\* cell is u16::MAX, whatever best-known values the original grid held.
C16_FreshBestKnown ==
    rpc \in {"ready", "expanded"} =>
        \A c \in CellsOf(matrix) :
            (matrix[c[1] + 1][c[2] + 1]).min =
                (IF c = <<0, 0>> THEN 0 ELSE MinRiskMAX)

\* a 2 x 2 map was solved, which lowered best-known values, and then
\* expanded to 10 x 10
C16_Witness ==
    /\ rpc = "expanded"
    /\ Len(input) = 2
    /\ result > 0
    /\ Len(matrix) = 10
    /\ (matrix[2][2]).min = MinRiskMAX

\* C17: on the sample grid lowest_risk returns 40 for the grid as parsed and
\* 315 for the grid expand_5x makes of it.
C17_SampleCosts ==
    (rpc = "returned" /\ input = SampleGrid) =>
        result = (IF Len(matrix) = 10 THEN 40 ELSE 315)

\* lowest_risk has returned on the 50 x 50 grid expanded from the sample
C17_Witness ==
    /\ rpc = "returned"
    /\ input = SampleGrid
    /\ Len(matrix) = 50
    /\ result = 315

-----------------------------------------------------------------------------
(* day12.rs : Cave, CaveMap *)

Cave_End == [kind |-> "End", name |-> ""]
Cave_Start == [kind |-> "Start", name |-> ""]
Cave_Big(name) == [kind |-> "Big", name |-> name]
Cave_Small(name) == [kind |-> "Small", name |-> name]

\* the names whose first character is an ASCII lowercase letter
LowercaseNames == {"b", "c", "d"}

\* impl From<String> for Cave
Cave_from(value) ==
    CASE value = "start" -> Cave_Start
      [] value = "end" -> Cave_End
      [] value \in LowercaseNames -> Cave_Small(value)
      [] OTHER -> Cave_Big(value)

\* impl Debug for Cave, as used by format!("{:?}", cave)
Cave_fmt(c) ==
    CASE c.kind = "End" -> "End"
      [] c.kind = "Start" -> "Start"
      [] c.kind = "Big" -> "Big(" \o c.name \o ")"
      [] c.kind = "Small" -> "Small(" \o c.name \o ")"

is_small(c) == c.kind = "Small"

\* Graph::from(points) with Relationship::BiDirectional: for every point the
\* edge a -> b and the edge b -> a
RECURSIVE Graph_from_bidirectional(_, _)
Graph_from_bidirectional(g, points) ==
    IF points = <<>>
    THEN g
    ELSE LET pt == Head(points)
         IN  CHOOSE r \in
                {Graph_from_bidirectional(g2, Tail(points)) :
                    g2 \in {add_edge_by_data(g1, pt[2], pt[1], "unit").graph :
                        g1 \in {add_edge_by_data(g, pt[1], pt[2], "unit").graph}}} :
                TRUE

\* impl From<Vec<String>> for CaveMap; a line "a-b" is the pair <<"a", "b">>
CaveMap_from(lines) ==
    LET points == [k \in 1..Len(lines) |->
                        <<Cave_from(lines[k][1]), Cave_from(lines[k][2])>>]
        g == Graph_from_bidirectional(Graph_new, points)
        s == find_node_index(g, Cave_Start)
        e == find_node_index(g, Cave_End)
    IN  IF s = None \/ e = None
        THEN [tag |-> "Panic", map |-> g, start |-> 0, end |-> 0]
        ELSE [tag |-> "Ok", map |-> g, start |-> Unwrap(s), end |-> Unwrap(e)]

\* CaveMap::get_node_data / map.get
CaveMap_get(cm, node_ptr) == get_node_data(cm.map, node_ptr)

\* map.nodes(): every node's data, in index order
Graph_nodes(g) == [k \in 1..Len(g.nodes) |-> g.nodes[k].data]

\* CaveMap::neighbours: the state of a fresh Neighbours iterator
CaveMap_neighbours(cm, curr_index) == cm.map.nodes[curr_index + 1].first_edge

-----------------------------------------------------------------------------
(* day12.rs : distinct_path_once *)

\* a test that forgets the start cave
OnceBlockedNoStart(cm, stack, n) == SeqContains(stack, n)

\* small_caves_stack.contains(n) || *n == cave_map.start
OnceBlocked(cm, stack, n) == SeqContains(stack, n) \/ n = cm.start

\* Vec::pop
VecPop(q) == IF q = <<>> THEN q ELSE SubSeq(q, 1, Len(q) - 1)

OnceFrame(curr) == [curr |-> curr, it |-> None, result |-> 0, pos |-> "entry"]

Top(q) == q[Len(q)]
SetTop(q, f) == [q EXCEPT ![Len(q)] = f]

\* part1
Part1Call ==
    /\ cpc = "ready"
    /\ part = 1
    /\ cpc' = "once"
    /\ frames' = <<OnceFrame(cave_map.start)>>
    /\ small_caves_stack' = <<>>
    /\ UNCHANGED <<cave_map, part, workers, spawn_i, channel, builder, cresult>>
    /\ UNCHANGED notCaveVars

\* the value v returned by the top frame: it is added to the caller's result,
\* or is the result of part1
OnceReturnValue(v) ==
    IF Len(frames) = 1
    THEN /\ frames' = <<>>
         /\ cresult' = v
         /\ cpc' = "done"
    ELSE /\ frames' = LET rest == VecPop(frames)
                      IN  SetTop(rest, [Top(rest) EXCEPT !.result = @ + v])
         /\ UNCHANGED <<cresult, cpc>>

\* if *curr_index == cave_map.end { return 1; }
OnceAtEnd ==
    /\ cpc = "once"
    /\ Top(frames).pos = "entry"
    /\ Top(frames).curr = cave_map.end
    /\ OnceReturnValue(1)
    /\ UNCHANGED <<cave_map, part, small_caves_stack, workers, spawn_i, channel, builder>>
    /\ UNCHANGED notCaveVars

\* let mut result = 0; the iterator over the neighbours is created
OnceEnter ==
    /\ cpc = "once"
    /\ Top(frames).pos = "entry"
    /\ Top(frames).curr # cave_map.end
    /\ frames' = SetTop(frames, [Top(frames) EXCEPT
                    !.pos = "loop",
                    !.it = CaveMap_neighbours(cave_map, Top(frames).curr)])
    /\ UNCHANGED <<cave_map, part, cpc, small_caves_stack, workers, spawn_i,
                   channel, builder, cresult>>
    /\ UNCHANGED notCaveVars

\* the loop's next neighbour is skipped: continue
OnceSkip ==
    /\ cpc = "once"
    /\ Top(frames).pos = "loop"
    /\ Top(frames).it # None
    /\ LET edge == get_edge(cave_map.map, Unwrap(Top(frames).it))
       IN  /\ OnceBlocked(cave_map, small_caves_stack, edge.to)
           /\ frames' = SetTop(frames, [Top(frames) EXCEPT !.it = edge.next_edge])
    /\ UNCHANGED <<cave_map, part, cpc, small_caves_stack, workers, spawn_i,
                   channel, builder, cresult>>
    /\ UNCHANGED notCaveVars

\* the loop's next neighbour is entered: pushed if small, then the call
OnceDescend ==
    /\ cpc = "once"
    /\ Top(frames).pos = "loop"
    /\ Top(frames).it # None
    /\ LET edge == get_edge(cave_map.map, Unwrap(Top(frames).it))
           n == edge.to
       IN  /\ ~OnceBlocked(cave_map, small_caves_stack, n)
           /\ small_caves_stack' =
                IF is_small(CaveMap_get(cave_map, n))
                THEN Append(small_caves_stack, n)
                ELSE small_caves_stack
           /\ IF Len(frames) >= StackLimit
              THEN /\ cpc' = "overflow"
                   /\ UNCHANGED frames
              ELSE /\ frames' = Append(
                        SetTop(frames, [Top(frames) EXCEPT !.it = edge.next_edge]),
                        OnceFrame(n))
                   /\ UNCHANGED cpc
    /\ UNCHANGED <<cave_map, part, workers, spawn_i, channel, builder, cresult>>
    /\ UNCHANGED notCaveVars

\* the loop is over: pop if the current cave is small, and return result
OnceReturn ==
    /\ cpc = "once"
    /\ Top(frames).pos = "loop"
    /\ Top(frames).it = None
    /\ small_caves_stack' =
            IF is_small(CaveMap_get(cave_map, Top(frames).curr))
            THEN VecPop(small_caves_stack)
            ELSE small_caves_stack
    /\ OnceReturnValue(Top(frames).result)
    /\ UNCHANGED <<cave_map, part, workers, spawn_i, channel, builder>>
    /\ UNCHANGED notCaveVars

-----------------------------------------------------------------------------
(* day12.rs : Path, PathsBuilder, distinct_path_with_options, part2 *)

\* PathsBuilder::new: the channel, and the builder holding its sender
PathsBuilder_new == [final_paths |-> {}, tx |-> TRUE]

\* PathsBuilder::new_path: a Path with a clone of the sender
new_path(b) ==
    IF b.tx
    THEN Some([path |-> <<>>, visited |-> {}])
    ELSE Panic

\* Path::add_to_path
add_to_path(path, cave) == Append(path, Cave_fmt(cave))

\* a channel that keeps one path and drops what is sent while it is full
send_bounded(ch, path) == IF Len(ch) >= 1 THEN ch ELSE Append(ch, path)

\* Path::send: self.tx.send(self.path.clone())
send(ch, path) == Append(ch, path)

\* path.iter().fold(String::new(), |acc, x| acc + x)
RECURSIVE PathKey(_)
PathKey(path) == IF path = <<>> THEN "" ELSE Head(path) \o PathKey(Tail(path))

\* a test that lets the search go back through the start
OptBlockedVisitedOnly(cm, visited, n) == n \in visited

\* a test that lets a visited small cave be entered again
OptBlockedStartOnly(cm, visited, n) == n = cm.start

\* path.contains(curr_node_index) || *curr_node_index == cave_map.start
OptBlocked(cm, visited, n) == n \in visited \/ n = cm.start

\* a test that lets the repeat cave in on its count once only
UsesRepeatOnce(cm, repeat_node, count, n) ==
    repeat_node = CaveMap_get(cm, n) /\ count > 1

\* repeat_node == current_cave && count != 0
UsesRepeat(cm, repeat_node, count, n) ==
    repeat_node = CaveMap_get(cm, n) /\ count # 0

\* a frame of distinct_path_with_options; before keeps, for the properties,
\* count and the path as they were when the neighbour being processed came up
OptFrame(curr, count) ==
    [curr |-> curr, count |-> count, it |-> None, child |-> 0, pos |-> "entry",
     before |-> None]

\* a return that never gives the count back
GiveBackNever(cm, repeat_node, child, count) == count

\* if repeat_node == current_cave { count += 1; }
GiveBack(cm, repeat_node, child, count) ==
    IF repeat_node = CaveMap_get(cm, child) THEN count + 1 ELSE count

\* the small caves of get_nodes() after the first i nodes, as positions
SmallAfter(cm, i) ==
    {k \in (i + 1)..Len(cm.map.nodes) : is_small(Graph_nodes(cm.map)[k])}

AllFinished == \A w \in 1..Len(workers) : workers[w].status = "finished"

\* part2: PathsBuilder::new(), and the scope is entered
Part2Call ==
    /\ cpc = "ready"
    /\ part = 2
    /\ cpc' = "spawn"
    /\ builder' = PathsBuilder_new
    /\ channel' = <<>>
    /\ spawn_i' = 0
    /\ workers' = <<>>
    /\ UNCHANGED <<cave_map, part, frames, small_caves_stack, cresult>>
    /\ UNCHANGED notCaveVars

\* the next small cave of get_nodes(): new_path() and scope.spawn
Spawn ==
    /\ cpc = "spawn"
    /\ SmallAfter(cave_map, spawn_i) # {}
    /\ LET k == CHOOSE k \in SmallAfter(cave_map, spawn_i) :
                    \A l \in SmallAfter(cave_map, spawn_i) : k <= l
           np == new_path(builder)
       IN  IF IsSome(np)
           THEN /\ workers' = Append(workers,
                        [repeat |-> Graph_nodes(cave_map.map)[k],
                         path |-> Unwrap(np).path,
                         visited |-> Unwrap(np).visited,
                         frames |-> <<OptFrame(cave_map.start, 2)>>,
                         status |-> "running"])
                /\ spawn_i' = k
                /\ UNCHANGED cpc
           ELSE /\ cpc' = "panic"
                /\ UNCHANGED <<workers, spawn_i>>
    /\ UNCHANGED <<cave_map, part, frames, small_caves_stack, channel, builder, cresult>>
    /\ UNCHANGED notCaveVars

\* the frame on top of worker w's stack returns
OptPopFrame(wk) ==
    LET rest == VecPop(wk.frames)
    IN  IF rest = <<>>
        THEN [wk EXCEPT !.frames = rest, !.status = "finished"]
        ELSE [wk EXCEPT !.frames = SetTop(rest, [Top(rest) EXCEPT !.pos = "back"])]

Running(w) == cpc = "spawn" /\ workers[w].status = "running"

\* add_to_path; the current cave is the end: path.send(); return
OptAtEnd(w) ==
    /\ Running(w)
    /\ LET wk == workers[w]
           f == Top(wk.frames)
           path1 == add_to_path(wk.path, CaveMap_get(cave_map, f.curr))
       IN  /\ f.pos = "entry"
           /\ f.curr = cave_map.end
           /\ channel' = send(channel, path1)
           /\ workers' = [workers EXCEPT ![w] = OptPopFrame([wk EXCEPT !.path = path1])]
    /\ UNCHANGED <<cave_map, part, cpc, frames, small_caves_stack, spawn_i, builder, cresult>>
    /\ UNCHANGED notCaveVars

\* add_to_path; the iterator over the neighbours is created
OptEnter(w) ==
    /\ Running(w)
    /\ LET wk == workers[w]
           f == Top(wk.frames)
       IN  /\ f.pos = "entry"
           /\ f.curr # cave_map.end
           /\ workers' = [workers EXCEPT ![w] =
                [wk EXCEPT
                    !.path = add_to_path(wk.path, CaveMap_get(cave_map, f.curr)),
                    !.frames = SetTop(wk.frames, [f EXCEPT
                        !.pos = "loop",
                        !.it = CaveMap_neighbours(cave_map, f.curr)])]]
    /\ UNCHANGED <<cave_map, part, cpc, frames, small_caves_stack, spawn_i,
                   channel, builder, cresult>>
    /\ UNCHANGED notCaveVars

\* the loop's next neighbour is skipped: continue
OptSkip(w) ==
    /\ Running(w)
    /\ LET wk == workers[w]
           f == Top(wk.frames)
       IN  /\ f.pos = "loop"
           /\ f.it # None
           /\ LET edge == get_edge(cave_map.map, Unwrap(f.it))
              IN  /\ ~UsesRepeat(cave_map, wk.repeat, f.count, edge.to)
                  /\ OptBlocked(cave_map, wk.visited, edge.to)
                  /\ workers' = [workers EXCEPT ![w] =
                        [wk EXCEPT !.frames =
                            SetTop(wk.frames, [f EXCEPT !.it = edge.next_edge])]]
    /\ UNCHANGED <<cave_map, part, cpc, frames, small_caves_stack, spawn_i,
                   channel, builder, cresult>>
    /\ UNCHANGED notCaveVars

\* the loop's next neighbour is entered: count taken if it is the repeat
\* cave, the cave marked visited if small, then the call
OptDescend(w) ==
    /\ Running(w)
    /\ LET wk == workers[w]
           f == Top(wk.frames)
       IN  /\ f.pos = "loop"
           /\ f.it # None
           /\ LET edge == get_edge(cave_map.map, Unwrap(f.it))
                  n == edge.to
                  uses == UsesRepeat(cave_map, wk.repeat, f.count, n)
                  count1 == IF uses THEN f.count - 1 ELSE f.count
                  visited1 == IF is_small(CaveMap_get(cave_map, n))
                              THEN wk.visited \cup {n}
                              ELSE wk.visited
              IN  /\ uses \/ ~OptBlocked(cave_map, wk.visited, n)
                  /\ IF Len(wk.frames) >= StackLimit
                     THEN /\ cpc' = "overflow"
                          /\ UNCHANGED workers
                     ELSE /\ workers' = [workers EXCEPT ![w] =
                                [wk EXCEPT
                                    !.visited = visited1,
                                    !.frames = Append(
                                        SetTop(wk.frames, [f EXCEPT
                                            !.it = edge.next_edge,
                                            !.count = count1,
                                            !.child = n,
                                            !.before = Some(<<f.count, wk.path>>),
                                            !.pos = "called"]),
                                        OptFrame(n, count1))]]
                          /\ UNCHANGED cpc
    /\ UNCHANGED <<cave_map, part, frames, small_caves_stack, spawn_i,
                   channel, builder, cresult>>
    /\ UNCHANGED notCaveVars

\* the call has returned: path.pop_path(), and count given back if the cave
\* entered was the repeat cave
OptBack(w) ==
    /\ Running(w)
    /\ LET wk == workers[w]
           f == Top(wk.frames)
       IN  /\ f.pos = "back"
           /\ IF wk.path = <<>>
              THEN /\ cpc' = "panic"
                   /\ UNCHANGED workers
              ELSE /\ workers' = [workers EXCEPT ![w] =
                        [wk EXCEPT
                            !.path = VecPop(wk.path),
                            !.frames = SetTop(wk.frames, [f EXCEPT
                                !.pos = "loop",
                                !.count = GiveBack(cave_map, wk.repeat,
                                                   f.child, f.count)])]]
                   /\ UNCHANGED cpc
    /\ UNCHANGED <<cave_map, part, frames, small_caves_stack, spawn_i,
                   channel, builder, cresult>>
    /\ UNCHANGED notCaveVars

\* the loop is over: the current cave leaves visited if small; return
OptReturn(w) ==
    /\ Running(w)
    /\ LET wk == workers[w]
           f == Top(wk.frames)
       IN  /\ f.pos = "loop"
           /\ f.it = None
           /\ workers' = [workers EXCEPT ![w] =
                OptPopFrame([wk EXCEPT !.visited =
                    IF is_small(CaveMap_get(cave_map, f.curr))
                    THEN wk.visited \ {f.curr}
                    ELSE wk.visited])]
    /\ UNCHANGED <<cave_map, part, cpc, frames, small_caves_stack, spawn_i,
                   channel, builder, cresult>>
    /\ UNCHANGED notCaveVars

\* thread::scope returns: every small cave has its thread, every thread is
\* joined
ScopeJoin ==
    /\ cpc = "spawn"
    /\ SmallAfter(cave_map, spawn_i) = {}
    /\ AllFinished
    /\ cpc' = "build"
    /\ UNCHANGED <<cave_map, part, frames, small_caves_stack, workers, spawn_i,
                   channel, builder, cresult>>
    /\ UNCHANGED notCaveVars

\* build: drop(self.tx.take())
BuildDropTx ==
    /\ cpc = "build"
    /\ builder' = [builder EXCEPT !.tx = FALSE]
    /\ cpc' = "recv"
    /\ UNCHANGED <<cave_map, part, frames, small_caves_stack, workers, spawn_i,
                   channel, cresult>>
    /\ UNCHANGED notCaveVars

\* build: one path out of self.rx.iter() is inserted
BuildRecv ==
    /\ cpc = "recv"
    /\ channel # <<>>
    /\ builder' = [builder EXCEPT !.final_paths = @ \cup {PathKey(Head(channel))}]
    /\ channel' = Tail(channel)
    /\ UNCHANGED <<cave_map, part, cpc, frames, small_caves_stack, workers,
                   spawn_i, cresult>>
    /\ UNCHANGED notCaveVars

\* build: rx.iter() ends when the channel is empty and every sender is
\* dropped; self.count()
BuildCount ==
    /\ cpc = "recv"
    /\ channel = <<>>
    /\ ~builder.tx
    /\ AllFinished
    /\ cresult' = Cardinality(builder.final_paths)
    /\ cpc' = "done"
    /\ UNCHANGED <<cave_map, part, frames, small_caves_stack, workers, spawn_i,
                   channel, builder>>
    /\ UNCHANGED notCaveVars

-----------------------------------------------------------------------------
(* day 12: the inputs and the specifications *)

\* the connections a cave map is drawn from; no two big caves are joined
CavePairs ==
    <<(<<"start", "A">>), (<<"start", "b">>), (<<"A", "b">>), (<<"b", "c">>),
      (<<"A", "end">>), (<<"b", "end">>), (<<"start", "end">>), (<<"c", "end">>)>>

\* connections among two big caves A and B and one small cave
TermPairs ==
    <<(<<"start", "A">>), (<<"A", "B">>), (<<"start", "b">>), (<<"A", "b">>),
      (<<"B", "b">>), (<<"A", "end">>), (<<"B", "end">>), (<<"b", "end">>),
      (<<"start", "B">>), (<<"start", "end">>)>>

\* the lines of `pairs` at the positions `sel`, in order
RECURSIVE Pick(_, _, _)
Pick(pairs, sel, k) ==
    IF k > Len(pairs)
    THEN <<>>
    ELSE (IF k \in sel THEN <<pairs[k]>> ELSE <<>>) \o Pick(pairs, sel, k + 1)

CaveInputs(pairs, max) ==
    {Pick(pairs, sel, 1) :
        sel \in {x \in SUBSET (1..Len(pairs)) : Cardinality(x) <= max}}

InitCaveFrom(inputs) ==
    /\ IdlePawn
    /\ IdleRisk
    /\ IdleUtils
    /\ IdleSnail
    /\ IdleGrid
    /\ IdleGraph
    /\ \E lines \in inputs :
        /\ CaveMap_from(lines).tag = "Ok"
        /\ cave_map = [map |-> CaveMap_from(lines).map,
                       start |-> CaveMap_from(lines).start,
                       end |-> CaveMap_from(lines).end]
    /\ part \in {1, 2}
    /\ cpc = "ready"
    /\ frames = <<>>
    /\ small_caves_stack = <<>>
    /\ workers = <<>>
    /\ spawn_i = 0
    /\ channel = <<>>
    /\ builder = [final_paths |-> {}, tx |-> FALSE]
    /\ cresult = 0

InitCave == InitCaveFrom(CaveInputs(CavePairs, MaxCaveEdges))

InitCaveTerm == InitCaveFrom(CaveInputs(TermPairs, MaxTermEdges))

NextCave ==
    \/ Part1Call
    \/ OnceAtEnd
    \/ OnceEnter
    \/ OnceSkip
    \/ OnceDescend
    \/ OnceReturn
    \/ Part2Call
    \/ Spawn
    \/ \E w \in 1..Len(workers) : OptAtEnd(w)
    \/ \E w \in 1..Len(workers) : OptEnter(w)
    \/ \E w \in 1..Len(workers) : OptSkip(w)
    \/ \E w \in 1..Len(workers) : OptDescend(w)
    \/ \E w \in 1..Len(workers) : OptBack(w)
    \/ \E w \in 1..Len(workers) : OptReturn(w)
    \/ ScopeJoin
    \/ BuildDropTx
    \/ BuildRecv
    \/ BuildCount

SpecCave == InitCave /\ [][NextCave]_vars

\* the smallest sample of the puzzle
SampleCaveLines ==
    <<(<<"start", "A">>), (<<"start", "b">>), (<<"A", "c">>), (<<"A", "b">>),
      (<<"b", "d">>), (<<"A", "end">>), (<<"b", "end">>)>>

InitCaveSample == InitCaveFrom({SampleCaveLines})

\* worker w is the running thread spawned first: on the sample the threads
\* are scheduled one after the other, in spawn order
Scheduled(w) == \A v \in 1..(w - 1) : workers[v].status = "finished"

NextCaveSample ==
    \/ Part1Call
    \/ OnceAtEnd
    \/ OnceEnter
    \/ OnceSkip
    \/ OnceDescend
    \/ OnceReturn
    \/ Part2Call
    \/ Spawn
    \/ \E w \in 1..Len(workers) : Scheduled(w) /\ OptAtEnd(w)
    \/ \E w \in 1..Len(workers) : Scheduled(w) /\ OptEnter(w)
    \/ \E w \in 1..Len(workers) : Scheduled(w) /\ OptSkip(w)
    \/ \E w \in 1..Len(workers) : Scheduled(w) /\ OptDescend(w)
    \/ \E w \in 1..Len(workers) : Scheduled(w) /\ OptBack(w)
    \/ \E w \in 1..Len(workers) : Scheduled(w) /\ OptReturn(w)
    \/ ScopeJoin
    \/ BuildDropTx
    \/ BuildRecv
    \/ BuildCount

SpecCaveSample == InitCaveSample /\ [][NextCaveSample]_vars

\* a running program takes a step whenever one is possible
FairCaveTerm == InitCaveTerm /\ [][NextCave]_vars /\ WF_vars(NextCave)

-----------------------------------------------------------------------------
(* day 12: the paths of a cave map, enumerated breadth-first *)

CaveNodes(cm) == 0..(Len(cm.map.nodes) - 1)

SmallNodes(cm) == {n \in CaveNodes(cm) : is_small(CaveMap_get(cm, n))}

BigNodes(cm) == {n \in CaveNodes(cm) : CaveMap_get(cm, n).kind = "Big"}

Joined(cm, a, b) == SeqContains(neighbours_iter(cm.map, a), b)

NoBigBigEdge(cm) == \A a, b \in BigNodes(cm) : ~Joined(cm, a, b)

Occurrences(p, n) == Cardinality({k \in 1..Len(p) : p[k] = n})

\* the visit rule: <<"once">> every small cave at most once; <<"repeat", r>>
\* the small cave r at most twice and the others once; <<"one_twice">> at
\* most one small cave twice and the others once
Obeys(cm, p, rule) ==
    CASE rule[1] = "once" ->
            \A n \in SmallNodes(cm) : Occurrences(p, n) <= 1
      [] rule[1] = "repeat" ->
            \A n \in SmallNodes(cm) :
                Occurrences(p, n) <= (IF n = rule[2] THEN 2 ELSE 1)
      [] rule[1] = "one_twice" ->
            /\ \A n \in SmallNodes(cm) : Occurrences(p, n) <= 2
            /\ Cardinality({n \in SmallNodes(cm) : Occurrences(p, n) = 2}) <= 1

\* the walks one edge longer than a walk of F that never re-enter the start
\* and obey the rule
Longer(cm, F, rule) ==
    {q \in UNION {{Append(p, n) : n \in CaveNodes(cm)} : p \in F} :
        /\ Joined(cm, q[Len(q) - 1], q[Len(q)])
        /\ q[Len(q)] # cm.start
        /\ Obeys(cm, q, rule)}

RECURSIVE WalksFrom(_, _, _, _)
WalksFrom(cm, F, acc, rule) ==
    IF F = {}
    THEN acc
    ELSE LET L == Longer(cm, F, rule)
         IN  WalksFrom(cm, {q \in L : q[Len(q)] # cm.end},
                       acc \cup {q \in L : q[Len(q)] = cm.end}, rule)

\* the node sequences from Start to End under the rule
PathsUnder(cm, rule) ==
    IF cm.start = cm.end
    THEN {<<cm.start>>}
    ELSE WalksFrom(cm, {<<cm.start>>}, {}, rule)

\* C5: when part2 returns, its value is the number of distinct node sequences
\* from Start to End in which at most one small cave appears twice and every
\* other small cave at most once, on every cave graph with no edge between
\* two big caves.
C5_Part2CountsPaths ==
    (cpc = "done" /\ part = 2 /\ NoBigBigEdge(cave_map)) =>
        cresult = Cardinality(PathsUnder(cave_map, <<"one_twice">>))

\* C6: when part1 (distinct_path_once) returns, its value is the number of
\* distinct node sequences from Start to End in which every small cave
\* appears at most once, on every cave graph with no edge between two big
\* caves.
C6_Part1CountsPaths ==
    (cpc = "done" /\ part = 1 /\ NoBigBigEdge(cave_map)) =>
        cresult = Cardinality(PathsUnder(cave_map, <<"once">>))

\* part1 has returned two or more paths through a big cave
C6_Witness ==
    /\ cpc = "done"
    /\ part = 1
    /\ cresult >= 2
    /\ BigNodes(cave_map) # {}

\* C7: on every finite cave graph the searches return, so part1 or part2
\* eventually has its result.
C7_SearchesTerminate == <>(cpc = "done")

\* C7, amended: on every finite cave graph with no edge between two big
\* caves the searches return.
C7_TerminateWithoutBigBigEdge == NoBigBigEdge(cave_map) ~> (cpc = "done")

\* a search through a big and a small cave has returned with paths found
C7_Witness ==
    /\ cpc = "done"
    /\ NoBigBigEdge(cave_map)
    /\ BigNodes(cave_map) # {}
    /\ SmallNodes(cave_map) # {}
    /\ cresult >= 2

\* the paths the worker of each small cave completes, all workers together
WorkersPaths(cm) ==
    UNION {PathsUnder(cm, <<"repeat", r>>) : r \in SmallNodes(cm)}

\* C8: in part2 the value build returns is, whatever the interleaving of the
\* workers, the number of distinct paths completed by all workers together;
\* build runs only after every worker has finished, and when it returns
\* nothing sent is left in the channel.
C8_BuildCountsAllWorkersPaths ==
    /\ (cpc \in {"build", "recv", "done"} /\ part = 2) => AllFinished
    /\ (cpc = "done" /\ part = 2) =>
        /\ channel = <<>>
        /\ Len(workers) = Cardinality(SmallNodes(cave_map))
        /\ cresult = Cardinality(WorkersPaths(cave_map))

\* build has returned after two workers sent, between them, two distinct
\* paths
C8_Witness ==
    /\ cpc = "done"
    /\ part = 2
    /\ Len(workers) >= 2
    /\ cresult >= 2

\* the cave map is that of the sample
OnSample == cave_map.map = CaveMap_from(SampleCaveLines).map

\* C18: on the sample cave graph (start-A, start-b, A-c, A-b, b-d, A-end,
\* b-end) part2 yields exactly 10 distinct paths.
C18_SampleTenPaths ==
    (cpc = "done" /\ part = 2 /\ OnSample) => cresult = 10

\* C18, amended: on the sample cave graph part2 yields exactly 36 distinct
\* paths.
C18_SampleThirtySixPaths ==
    (cpc = "done" /\ part = 2 /\ OnSample) => cresult = 36

\* part2 has returned on the sample after the three workers of b, c and d
C18_Witness ==
    /\ cpc = "done"
    /\ part = 2
    /\ OnSample
    /\ Len(workers) = 3
    /\ cresult = 36

-----------------------------------------------------------------------------
(* utils/helper_utils.rs : Utils::run_part *)

\* the answers and expected values tried: 0..MaxAnswer
MaxAnswer == 9

Answers == 0..MaxAnswer

\* a test that only fails results above the expected value
AssertionFailedAbove(exp, res) == exp # 0 /\ res > exp

\* expected != 0 && result != expected
AssertionFailed(exp, res) == exp # 0 /\ res # exp

InitUtils ==
    /\ IdlePawn
    /\ IdleRisk
    /\ IdleGrid
    /\ IdleGraph
    /\ IdleCave
    /\ IdleSnail
    /\ expected \in Answers
    /\ part_result = 0
    /\ upc = "ready"
    /\ exit_status = None

\* run_part up to the comparison: read_file and the day's function, either of
\* which may panic; otherwise the function returns some answer
RunDayFunc ==
    /\ upc = "ready"
    /\ \/ /\ upc' = "panicked"
          /\ UNCHANGED part_result
       \/ /\ upc' = "computed"
          /\ part_result' \in Answers
    /\ UNCHANGED <<expected, exit_status>>
    /\ UNCHANGED notUtilsVars

\* run_part from the comparison on: std::process::exit(1) on a failed
\* assertion, otherwise the result is printed and run_part returns
CheckExpected ==
    /\ upc = "computed"
    /\ IF AssertionFailed(expected, part_result)
       THEN /\ upc' = "exited"
            /\ exit_status' = Some(1)
       ELSE /\ upc' = "returned"
            /\ UNCHANGED exit_status
    /\ UNCHANGED <<expected, part_result>>
    /\ UNCHANGED notUtilsVars

NextUtils == RunDayFunc \/ CheckExpected

SpecUtils == InitUtils /\ [][NextUtils]_vars

\* run_part is over, by exit or by return, after the day's function computed
\* a result
RunPartOver == upc \in {"exited", "returned"}

\* the process has terminated with a non-zero exit status
ExitedNonZero ==
    /\ upc = "exited"
    /\ IsSome(exit_status)
    /\ Unwrap(exit_status) # 0

-----------------------------------------------------------------------------
(* day18.rs : SnailFish *)

\* u8::MAX, the greatest value of a Number token
U8MAX == 255

\* the greatest of the small two-digit values tried in the inputs
MaxSnailValue == 20

\* enum SnailToken
OpenParen == [kind |-> "OpenParen", n |-> 0]
CloseParen == [kind |-> "CloseParen", n |-> 0]
Number(n) == [kind |-> "Number", n |-> n]

\* Vec::remove(index) and Vec::insert(index, element), index counted from 0
Vec_remove(v, i) == SubSeq(v, 1, i) \o SubSeq(v, i + 2, Len(v))
Vec_insert(v, i, x) == SubSeq(v, 1, i) \o <<x>> \o SubSeq(v, i + 1, Len(v))

\* a split into two floors
SplitPairFloors(n) == <<n \div 2, n \div 2>>

\* (first, second) = (n / 2, n - (n / 2))
SplitPair(n) == <<n \div 2, n - (n \div 2)>>

\* the body of split's if n > 9: the number token at index is removed and
\* "[", first, second, "]" are put in its place
SplitAt(v, i) ==
    LET p == SplitPair(v[i + 1].n)
        v0 == Vec_remove(v, i)
        v1 == Vec_insert(v0, i, CloseParen)
        v2 == Vec_insert(v1, i, Number(p[2]))
        v3 == Vec_insert(v2, i, Number(p[1]))
    IN  Vec_insert(v3, i, OpenParen)

\* impl Debug for SnailFish, from the k-th token on: TRUE when the formatter
\* meets a number with no token after it and panics
RECURSIVE Debug_fmt_panics(_, _)
Debug_fmt_panics(v, k) ==
    IF k > Len(v)
    THEN FALSE
    ELSE LET peeked == IF k < Len(v) THEN v[k + 1].kind ELSE "None"
         IN  CASE v[k].kind = "OpenParen" -> Debug_fmt_panics(v, k + 1)
               [] v[k].kind = "CloseParen" ->
                    IF peeked \in {"Number", "OpenParen"}
                    THEN Debug_fmt_panics(v, k + 2)
                    ELSE Debug_fmt_panics(v, k + 1)
               [] v[k].kind = "Number" ->
                    IF peeked = "None"
                    THEN TRUE
                    ELSE IF peeked \in {"Number", "OpenParen"}
                         THEN Debug_fmt_panics(v, k + 2)
                         ELSE Debug_fmt_panics(v, k + 1)

\* the tokens FromStr makes of "[a,b]", given the tokens of a and of b
SnailPair(a, b) == <<OpenParen>> \o a \o b \o <<CloseParen>>

SnailValues == {1, 9, 10, 11, MaxSnailValue, U8MAX}

\* the tokens of "n", for the values tried
SnailRegulars == {<<Number(n)>> : n \in SnailValues}

\* the tokens of "[[[[0,7],4],[15,[0,13]]],[1,1]]", the input of
\* test_snail_fish_split
SplitTestInput ==
    SnailPair(
        SnailPair(
            SnailPair(SnailPair(<<Number(0)>>, <<Number(7)>>), <<Number(4)>>),
            SnailPair(<<Number(15)>>,
                      SnailPair(<<Number(0)>>, <<Number(13)>>))),
        SnailPair(<<Number(1)>>, <<Number(1)>>))

\* what FromStr parses of a number alone, of a pair of numbers, of a pair of
\* such, and of the test's input
SnailInputs ==
    LET flat == {SnailPair(a, b) : a \in SnailRegulars, b \in SnailRegulars}
        elems == SnailRegulars \cup flat
    IN  SnailRegulars \cup {SnailPair(a, b) : a \in elems, b \in elems}
            \cup {SplitTestInput}

InitSnail ==
    /\ IdlePawn
    /\ IdleRisk
    /\ IdleGrid
    /\ IdleGraph
    /\ IdleCave
    /\ IdleUtils
    /\ snail_input \in SnailInputs
    /\ snail_rhs = <<>>
    /\ depth = 0
    /\ exploded = FALSE
    /\ tokens = snail_input
    /\ index = 0
    /\ was_split = FALSE
    /\ spc = "ready"
    /\ split_ret = FALSE

\* split: let mut index = 0; let mut was_split = false
SplitCall ==
    /\ spc = "ready"
    /\ spc' = "loop"
    /\ index' = 0
    /\ was_split' = FALSE
    /\ UNCHANGED <<snail_input, snail_rhs, depth, exploded, tokens, split_ret>>
    /\ UNCHANGED notSnailVars

\* split: one turn of while index < self.tokens.len()
SplitStep ==
    /\ spc = "loop"
    /\ index < Len(tokens)
    /\ IF tokens[index + 1].kind = "Number" /\ tokens[index + 1].n > 9
       THEN /\ tokens' = SplitAt(tokens, index)
            /\ was_split' = TRUE
       ELSE UNCHANGED <<tokens, was_split>>
    /\ index' = index + 1
    /\ UNCHANGED <<snail_input, snail_rhs, depth, exploded, spc, split_ret>>
    /\ UNCHANGED notSnailVars

\* split: the loop is over; println!("Split into: {:?}", self), then was_split
\* is returned
SplitReturn ==
    /\ spc = "loop"
    /\ index >= Len(tokens)
    /\ IF Debug_fmt_panics(tokens, 1)
       THEN /\ spc' = "panicked"
            /\ UNCHANGED split_ret
       ELSE /\ spc' = "returned"
            /\ split_ret' = was_split
    /\ UNCHANGED <<snail_input, snail_rhs, depth, exploded, tokens, index, was_split>>
    /\ UNCHANGED notSnailVars

NextSnail == SplitCall \/ SplitStep \/ SplitReturn

SpecSnail == InitSnail /\ [][NextSnail]_vars

\* the tokens that stand for n once every number above 9 is a pair of its
\* floored and its ceiled half
RECURSIVE RegularTree(_)
RegularTree(n) ==
    IF n <= 9
    THEN <<Number(n)>>
    ELSE <<OpenParen>> \o RegularTree(n \div 2) \o RegularTree((n + 1) \div 2)
            \o <<CloseParen>>

\* v from its k-th token on, every number replaced by its tree
RECURSIVE FullySplit(_, _)
FullySplit(v, k) ==
    IF k > Len(v)
    THEN <<>>
    ELSE (IF v[k].kind = "Number" THEN RegularTree(v[k].n) ELSE <<v[k]>>)
            \o FullySplit(v, k + 1)

HasLargeNumber(v) == \E k \in 1..Len(v) : v[k].kind = "Number" /\ v[k].n > 9

\* C20: split replaces every number above 9 by the pair of its floored and
\* ceiled halves, again on the numbers it creates, so that once it has
\* returned no number above 9 remains, all other tokens keep their order, and
\* it returns true iff at least one number was split.
C20_SplitAllLargeNumbers ==
    spc = "returned" =>
        /\ ~HasLargeNumber(tokens)
        /\ tokens = FullySplit(snail_input, 1)
        /\ split_ret = HasLargeNumber(snail_input)

\* split has returned true on [20,1], which is now [[[5,5],[5,5]],1]
C20_Witness ==
    /\ spc = "returned"
    /\ split_ret
    /\ snail_input = SnailPair(<<Number(20)>>, <<Number(1)>>)
    /\ tokens =
        SnailPair(
            SnailPair(SnailPair(<<Number(5)>>, <<Number(5)>>),
                      SnailPair(<<Number(5)>>, <<Number(5)>>)),
            <<Number(1)>>)

-----------------------------------------------------------------------------
(* day18.rs : SnailFish::explode and impl AddAssign *)

\* the positions (from 1) of the number tokens of v among those of S
NumbersIn(v, S) == {k \in S : k >= 1 /\ k <= Len(v) /\ v[k].kind = "Number"}

SetMax(S) == CHOOSE x \in S : \A y \in S : x >= y

\* *num += n on the token at position k (u8, release build)
AddToNumber(v, k, n) == [v EXCEPT ![k] = Number(WrapU8(v[k].n + n))]

\* self.tokens[..index].iter_mut().rfind(Number).map(*num += first_pair)
AddToLastBefore(v, i, n) ==
    LET c == NumbersIn(v, 1..i)
    IN  IF c = {} THEN v ELSE AddToNumber(v, SetMax(c), n)

\* self.tokens[index + 2..].iter_mut().find(Number).map(*num += second_pair)
AddToFirstAfter(v, i, n) ==
    LET c == NumbersIn(v, (i + 3)..Len(v))
    IN  IF c = {} THEN v ELSE AddToNumber(v, SetMin(c), n)

\* remove_snail_fish: three removes at i, then tokens[i - 1] = Number(0)
remove_snail_fish(v, i) ==
    [Vec_remove(Vec_remove(Vec_remove(v, i), i), i) EXCEPT ![i] = Number(0)]

\* split() run from index i on, as SplitCall, SplitStep and SplitReturn run it:
\* the tokens it leaves and the value it returns
RECURSIVE split_from(_, _, _)
split_from(v, i, ws) ==
    IF i >= Len(v)
    THEN [tokens |-> v, ret |-> ws, panics |-> Debug_fmt_panics(v, 1)]
    ELSE IF v[i + 1].kind = "Number" /\ v[i + 1].n > 9
         THEN CHOOSE r \in {split_from(w, i + 1, TRUE) : w \in {SplitAt(v, i)}} : TRUE
         ELSE split_from(v, i + 1, ws)

\* the reduced numbers [[[[p,q],x],[[r,s],y]],z] over 1 and 9
AddFamily ==
    {SnailPair(
        SnailPair(
            SnailPair(SnailPair(<<Number(p)>>, <<Number(q)>>), <<Number(x)>>),
            SnailPair(SnailPair(<<Number(r)>>, <<Number(t)>>), <<Number(y)>>)),
        <<Number(z)>>) :
        p \in {1, 9}, q \in {1, 9}, x \in {1, 9}, r \in {1, 9}, t \in {1, 9},
        y \in {1, 9}, z \in {1, 9}}

\* the tokens of "[[[[4,3],4],4],[7,[[8,4],9]]]", the first left operand of
\* test_addition
AddTestLhs ==
    SnailPair(
        SnailPair(
            SnailPair(SnailPair(<<Number(4)>>, <<Number(3)>>), <<Number(4)>>),
            <<Number(4)>>),
        SnailPair(<<Number(7)>>,
            SnailPair(SnailPair(<<Number(8)>>, <<Number(4)>>), <<Number(9)>>)))

\* the left operands: the family, the test's operand and the pair [1,9]
AddLhs == AddFamily \cup {AddTestLhs, SnailPair(<<Number(1)>>, <<Number(9)>>)}

\* the right operands: [1,1], the right operand of the test, and [9,9]
AddRhs == {SnailPair(<<Number(1)>>, <<Number(1)>>),
           SnailPair(<<Number(9)>>, <<Number(9)>>)}

InitAdd ==
    /\ IdlePawn
    /\ IdleRisk
    /\ IdleGrid
    /\ IdleGraph
    /\ IdleCave
    /\ IdleUtils
    /\ snail_input \in AddLhs
    /\ snail_rhs \in AddRhs
    /\ depth = 0
    /\ exploded = FALSE
    /\ tokens = snail_input
    /\ index = 0
    /\ was_split = FALSE
    /\ spc = "add_ready"
    /\ split_ret = FALSE

\* add_assign up to its call of explode
AddAssign ==
    /\ spc = "add_ready"
    /\ tokens' = <<OpenParen>> \o tokens \o snail_rhs \o <<CloseParen>>
    /\ spc' = "explode_call"
    /\ UNCHANGED <<snail_input, snail_rhs, depth, exploded, index, was_split,
                   split_ret>>
    /\ UNCHANGED notSnailVars

\* explode: println!("Exploding: {:?}", self) and the three locals
ExplodeCall ==
    /\ spc = "explode_call"
    /\ IF Debug_fmt_panics(tokens, 1)
       THEN /\ spc' = "panicked"
            /\ UNCHANGED <<depth, index, exploded>>
       ELSE /\ spc' = "explode"
            /\ depth' = 0
            /\ index' = 0
            /\ exploded' = FALSE
    /\ UNCHANGED <<snail_input, snail_rhs, tokens, was_split, split_ret>>
    /\ UNCHANGED notSnailVars

\* explode: one turn of while index < self.tokens.len()
ExplodeStep ==
    /\ spc = "explode"
    /\ index < Len(tokens)
    /\ LET tok == tokens[index + 1]
       IN  CASE tok.kind = "OpenParen" ->
                    /\ depth' = depth + 1
                    /\ index' = index + 1
                    /\ UNCHANGED <<tokens, exploded, spc>>
             [] tok.kind = "CloseParen" ->
                    /\ depth' = WrapU8(depth - 1)
                    /\ index' = index + 1
                    /\ UNCHANGED <<tokens, exploded, spc>>
             [] tok.kind = "Number" /\ depth < 5 ->
                    /\ index' = index + 1
                    /\ UNCHANGED <<tokens, exploded, depth, spc>>
             [] tok.kind = "Number" /\ depth >= 5 ->
                    LET v1 == AddToLastBefore(tokens, index, tok.n)
                    IN  IF \/ index + 2 > Len(tokens)
                           \/ v1[index + 2].kind # "Number"
                           \/ index + 3 > Len(tokens)
                        THEN /\ spc' = "panicked"
                             /\ tokens' = v1
                             /\ UNCHANGED <<exploded, depth, index>>
                        ELSE /\ tokens' = remove_snail_fish(
                                    AddToFirstAfter(v1, index, v1[index + 2].n),
                                    index)
                             /\ index' = index - 1
                             /\ depth' = depth - 1
                             /\ exploded' = TRUE
                             /\ UNCHANGED spc
    /\ UNCHANGED <<snail_input, snail_rhs, was_split, split_ret>>
    /\ UNCHANGED notSnailVars

\* explode after its loop: if exploded && self.split() { self.explode(); }
ExplodeEnd ==
    /\ spc = "explode"
    /\ index >= Len(tokens)
    /\ IF exploded
       THEN LET r == split_from(tokens, 0, FALSE)
            IN  /\ tokens' = r.tokens
                /\ split_ret' = r.ret
                /\ spc' = IF r.panics THEN "panicked"
                          ELSE IF r.ret THEN "explode_call" ELSE "added"
       ELSE /\ spc' = "added"
            /\ UNCHANGED <<tokens, split_ret>>
    /\ UNCHANGED <<snail_input, snail_rhs, depth, exploded, index, was_split>>
    /\ UNCHANGED notSnailVars

NextAdd == AddAssign \/ ExplodeCall \/ ExplodeStep \/ ExplodeEnd

SpecAdd == InitAdd /\ [][NextAdd]_vars

\* the number of pairs the k-th token of v lies inside
NestingAt(v, k) ==
    Cardinality({j \in 1..(k - 1) : v[j].kind = "OpenParen"})
        - Cardinality({j \in 1..(k - 1) : v[j].kind = "CloseParen"})

\* the positions of the first numbers of the pairs of two regular numbers
\* nested inside four pairs or more
Explodable(v) ==
    {k \in 2..(Len(v) - 2) :
        /\ v[k - 1].kind = "OpenParen"
        /\ v[k].kind = "Number"
        /\ v[k + 1].kind = "Number"
        /\ v[k + 2].kind = "CloseParen"
        /\ NestingAt(v, k) >= 5}

\* the positions of the numbers of 10 and above
Splittable(v) == {k \in 1..Len(v) : v[k].kind = "Number" /\ v[k].n >= 10}

\* the pair at k - 1 .. k + 2 explodes: its numbers go to the nearest numbers
\* on either side and 0 takes its place
ExplodePairAt(v, k) ==
    LET left == NumbersIn(v, 1..(k - 2))
        right == NumbersIn(v, (k + 3)..Len(v))
        w == [j \in 1..Len(v) |->
                IF left # {} /\ j = SetMax(left) THEN Number(v[j].n + v[k].n)
                ELSE IF right # {} /\ j = SetMin(right)
                     THEN Number(v[j].n + v[k + 1].n)
                     ELSE v[j]]
    IN  SubSeq(w, 1, k - 2) \o <<Number(0)>> \o SubSeq(w, k + 3, Len(w))

\* the number at k becomes the pair of its halves, the left one rounded down
SplitNumberAt(v, k) ==
    SubSeq(v, 1, k - 1)
        \o <<OpenParen, Number(v[k].n \div 2), Number((v[k].n + 1) \div 2),
             CloseParen>>
        \o SubSeq(v, k + 1, Len(v))

\* the reduction of the puzzle: the leftmost explosion while there is one,
\* else the leftmost split, until neither applies
RECURSIVE Reduced(_)
Reduced(v) ==
    IF Explodable(v) # {}
    THEN CHOOSE r \in {Reduced(w) : w \in {ExplodePairAt(v, SetMin(Explodable(v)))}} : TRUE
    ELSE IF Splittable(v) # {}
         THEN CHOOSE r \in {Reduced(w) : w \in {SplitNumberAt(v, SetMin(Splittable(v)))}} : TRUE
         ELSE v

\* no pair of v lies inside four pairs and no number of v is above 9
IsReduced(v) ==
    /\ \A k \in 1..Len(v) : v[k].kind = "OpenParen" => NestingAt(v, k) < 4
    /\ \A k \in 1..Len(v) : v[k].kind = "Number" => v[k].n <= 9

\* C21: for reduced a and b, a += b never panics and leaves a equal to the
\* reduction of [a, b], with no pair nested inside four pairs and no number
\* above 9.
C21_AddIsReducedSum ==
    /\ spc # "panicked"
    /\ spc = "added" =>
        /\ tokens = Reduced(SnailPair(snail_input, snail_rhs))
        /\ IsReduced(tokens)

-----------------------------------------------------------------------------
(* day 15: termination *)

\* C22: on every non-empty rectangular grid lowest_risk returns a cost: the
\* heap is never found empty, so unreachable!() is never executed, and every
\* run that has entered the loop leaves it by the return.
C22_LowestRiskReturns ==
    /\ [](rpc # "unreachable")
    /\ (rpc = "loop") ~> (rpc = "returned")

\* lowest_risk has returned a positive cost on a grid of several cells
C22_Witness ==
    /\ rpc = "returned"
    /\ num_rows(matrix) * num_cols(matrix) > 1
    /\ result > 0

-----------------------------------------------------------------------------
(* day 15: the order of the pops *)

\* the minimum over all paths from (0,0) to the cell c
MinCostTo(m, c) ==
    SetMin({p[2] : p \in {q \in WalkCost(m, {<<(<<0, 0>>), 0>>},
                                    Cardinality(Cells(m))) : q[1] = c}})

\* the step is a pop that found an entry
PopsEntry == rpc = "loop" /\ rpc' \in {"dirs", "returned"}

\* the entry that step popped: the one returned on, or the one kept in cur
PoppedEntry == IF rpc' = "returned" THEN <<result', end_coord>> ELSE cur'

\* C23: the costs of successively popped entries never decrease, and the
\* first time a coordinate is popped its cost is the minimum path cost from
\* (0,0) to it.
C23_PopsInOrderAndFirstPopMinimal ==
    [][PopsEntry =>
        /\ PoppedEntry[1] >= cur[1]
        /\ PoppedEntry[2] \notin popped =>
                PoppedEntry[1] = MinCostTo(matrix, PoppedEntry[2])]_vars

\* three coordinates have been popped, the last one away from the start and
\* at a positive cost
C23_Witness ==
    /\ rpc = "dirs"
    /\ Cardinality(popped) >= 3
    /\ cur[2] # <<0, 0>>
    /\ cur[1] > 0

-----------------------------------------------------------------------------
(* day 12: the frame of distinct_path_with_options *)

\* worker w's step finishes a neighbour: the frame on top is back at the head
\* of its loop, after a skip or after the call it made has returned
FinishesNeighbour(w) ==
    /\ w <= Len(workers')
    /\ workers'[w] # workers[w]
    /\ Len(workers'[w].frames) = Len(workers[w].frames)
    /\ workers[w].frames # <<>>
    /\ Top(workers[w].frames).pos \in {"loop", "back"}
    /\ Top(workers'[w].frames).pos = "loop"

\* count and the path as they were before the neighbour came up
BeforeNeighbour(w) ==
    LET f == Top(workers[w].frames)
    IN  IF f.pos = "back"
        THEN Unwrap(f.before)
        ELSE <<f.count, workers[w].path>>

\* C24: once a neighbour has been processed, skipped or entered and returned
\* from, count in the current frame and the path vector are what they were
\* before that neighbour was processed.
C24_CountAndPathRestored ==
    [][\A w \in 1..Len(workers) :
        FinishesNeighbour(w) =>
            /\ Top(workers'[w].frames).count = BeforeNeighbour(w)[1]
            /\ workers'[w].path = BeforeNeighbour(w)[2]]_vars

\* a worker is back at the head of a loop after a call into its repeat cave,
\* with the count it had taken given back
C24_Witness ==
    \E w \in 1..Len(workers) :
        /\ workers[w].frames # <<>>
        /\ LET f == Top(workers[w].frames)
           IN  /\ f.pos = "loop"
               /\ f.before # None
               /\ CaveMap_get(cave_map, f.child) = workers[w].repeat
               /\ f.count = Unwrap(f.before)[1]
               /\ f.count = 2

-----------------------------------------------------------------------------
(* day 12: the paths a worker sends *)

\* a node of the map whose cave is written `name` in a path
Named(cm, name) == {n \in CaveNodes(cm) : Cave_fmt(CaveMap_get(cm, n)) = name}

\* the path p, a vector of formatted caves, as the nodes it names
NodesOf(cm, p) == [k \in 1..Len(p) |-> CHOOSE n \in Named(cm, p[k]) : TRUE]

\* p is a walk of the map from Start to End that holds Start and End once
\* each, the small cave with data r at most twice and every other small cave
\* at most once
SoundPath(cm, p, r) ==
    /\ p # <<>>
    /\ \A k \in 1..Len(p) : Named(cm, p[k]) # {}
    /\ LET q == NodesOf(cm, p)
       IN  /\ q[1] = cm.start
           /\ q[Len(q)] = cm.end
           /\ Occurrences(q, cm.start) = 1
           /\ Occurrences(q, cm.end) = 1
           /\ \A k \in 1..(Len(q) - 1) : Joined(cm, q[k], q[k + 1])
           /\ \A n \in SmallNodes(cm) :
                Occurrences(q, n) <= (IF CaveMap_get(cm, n) = r THEN 2 ELSE 1)

\* the step puts a path into the channel
Sends == Len(channel') = Len(channel) + 1

\* C25: a path is sent only by a worker whose current cave is End, and the
\* path sent by the worker of the small cave r is a walk along the edges from
\* Start to End with Start and End once each, r at most twice and every other
\* small cave at most once.
C25_SentPathsAreSound ==
    [][Sends =>
        \E w \in 1..Len(workers) :
            /\ workers'[w] # workers[w]
            /\ Top(workers[w].frames).curr = cave_map.end
            /\ channel' = Append(channel, workers'[w].path)
            /\ SoundPath(cave_map, workers'[w].path, workers[w].repeat)]_vars

\* a path holding its worker's small cave twice is in the channel
C25_Witness ==
    \E k \in 1..Len(channel) :
        \E n \in SmallNodes(cave_map) :
            /\ \A j \in 1..Len(channel[k]) : Named(cave_map, channel[k][j]) # {}
            /\ Occurrences(NodesOf(cave_map, channel[k]), n) = 2

-----------------------------------------------------------------------------
(* day 12: the visited set of a Path *)

\* the small caves that occur on the path p
SmallOnPath(cm, p) ==
    {n \in SmallNodes(cm) : \E k \in 1..Len(p) : p[k] = Cave_fmt(CaveMap_get(cm, n))}

\* worker w is at the head of its loop with a neighbour left to examine
AboutToExamine(w) ==
    /\ workers[w].status = "running"
    /\ workers[w].frames # <<>>
    /\ Top(workers[w].frames).pos = "loop"
    /\ Top(workers[w].frames).it # None

\* C26: whenever distinct_path_with_options is about to examine a neighbour
\* of the current node, the visited set of its Path holds exactly the small
\* caves that occur on the current path.
C26_VisitedIsSmallOnPath ==
    \A w \in 1..Len(workers) :
        AboutToExamine(w) =>
            workers[w].visited = SmallOnPath(cave_map, workers[w].path)

-----------------------------------------------------------------------------
(* utils/graph.rs: graphs built through add_edge_by_data only *)

\* the data values named in the calls so far
NamedData == UNION {{named[k][1], named[k][2]} : k \in 1..Len(named)}

\* the nodes of g holding data
Holding(g, data) == {n \in 0..(Len(g.nodes) - 1) : get_node_data(g, n) = data}

\* C27: in a graph built through add_edge_by_data only no two nodes hold
\* equal data, there are as many nodes as distinct data values named so far,
\* and each call has added exactly one edge, from the node holding its `from`
\* to the node holding its `to`.
C27_OneNodePerData ==
    /\ \A m, n \in 0..(Len(graph.nodes) - 1) :
        get_node_data(graph, m) = get_node_data(graph, n) => m = n
    /\ Len(graph.nodes) = Cardinality(NamedData)
    /\ Len(graph.edges) = Len(named)
    /\ \A k \in 1..Len(named) :
        /\ Holding(graph, named[k][1]) = {added[k][1]}
        /\ Holding(graph, named[k][2]) = {get_edge(graph, k - 1).to}
        /\ added[k][2] = get_edge(graph, k - 1).to

\* three calls have named three values, one of them in two calls, one call
\* with the same value at both ends
C27_Witness ==
    /\ Len(named) = 3
    /\ Cardinality(NamedData) = 3
    /\ \E k \in 1..3 : named[k][1] = named[k][2]

-----------------------------------------------------------------------------
(* utils/graph.rs: the adjacency chains *)

\* the source of the edge with index e: the `from` of the call that added it
SourceOf(e) == added[e + 1][1]

\* C29: in every graph built by add_node and add_edge calls an edge's
\* next_edge, when present, is an index strictly below the edge's own and
\* that of an edge with the same source node, so that every adjacency chain
\* ends and neighbours_iter yields at most as many items as there are edges.
C29_ChainsDescend ==
    /\ \A e \in 0..(Len(graph.edges) - 1) :
        LET next == get_edge(graph, e).next_edge
        IN  next # None =>
                /\ Unwrap(next) < e
                /\ Unwrap(next) >= 0
                /\ SourceOf(Unwrap(next)) = SourceOf(e)
    /\ \A n \in 0..(Len(graph.nodes) - 1) :
        Len(neighbours_iter(graph, n)) <= Len(graph.edges)

\* two nodes have edges added in turn, and a chain of two edges skips the
\* other node's edge between them
C29_Witness ==
    /\ Len(graph.edges) = 3
    /\ get_edge(graph, 2).next_edge = Some(0)
    /\ SourceOf(1) # SourceOf(2)

-----------------------------------------------------------------------------
(* day21.rs : mod pawn.  A Pawn is kept as its player_id together with how  *)
(* it was made, by Pawn::new or by clone(); curr_position and score play no *)
(* part in the IDs.                                                         *)

Threads == 1..MaxThreads

PawnOf(player_id, made_by) == [player_id |-> player_id, made_by |-> made_by]

\* the Pawns made by Pawn::new that are alive
AliveNew == {p \in BagToSet(pawns) : p.made_by = "new"}

\* how many of them there are
NumAliveNew ==
    IF AliveNew = {}
    THEN 0
    ELSE BagCardinality([p \in AliveNew |-> pawns[p]])

\* give_id: if curr_id > 1 { Err("Can only hand out to 2 players")? }
give_id_check(curr_id) == curr_id > 1

InitPawn ==
    /\ IdleRisk
    /\ IdleGrid
    /\ IdleGraph
    /\ IdleCave
    /\ IdleUtils
    /\ IdleSnail
    /\ IdlePawn

\* Pawn::new, give_id: CURRENT_ID.load, and the early return of the Err
GiveIdLoad(t) ==
    /\ give[t] = None
    /\ BagCardinality(pawns) + Cardinality({u \in Threads : give[u] # None}) < MaxPawns
    /\ IF give_id_check(CURRENT_ID)
       THEN /\ new_ret' = <<"Err", NumAliveNew>>
            /\ UNCHANGED give
       ELSE /\ give' = [give EXCEPT ![t] = Some(CURRENT_ID)]
            /\ UNCHANGED new_ret
    /\ UNCHANGED <<CURRENT_ID, pawns>>
    /\ UNCHANGED notPawnVars

\* give_id: CURRENT_ID.fetch_add(1), and Pawn::new returns the Pawn
GiveIdAdd(t) ==
    /\ give[t] # None
    /\ CURRENT_ID' = WrapU8(CURRENT_ID + 1)
    /\ pawns' = pawns (+) SetToBag({PawnOf(Unwrap(give[t]), "new")})
    /\ new_ret' = <<"Ok", NumAliveNew, Unwrap(give[t])>>
    /\ give' = [give EXCEPT ![t] = None]
    /\ UNCHANGED notPawnVars

\* #[derive(Clone)]: the fields are copied, CURRENT_ID is not touched
PawnClone ==
    /\ BagCardinality(pawns) + Cardinality({u \in Threads : give[u] # None}) < MaxPawns
    /\ \E p \in BagToSet(pawns) :
        pawns' = pawns (+) SetToBag({PawnOf(p.player_id, "clone")})
    /\ UNCHANGED <<CURRENT_ID, give, new_ret>>
    /\ UNCHANGED notPawnVars

\* impl Drop for Pawn: CURRENT_ID.fetch_sub(1)
PawnDrop ==
    /\ \E p \in BagToSet(pawns) :
        pawns' = pawns (-) SetToBag({p})
    /\ CURRENT_ID' = WrapU8(CURRENT_ID - 1)
    /\ UNCHANGED <<give, new_ret>>
    /\ UNCHANGED notPawnVars

NextPawn ==
    \/ \E t \in Threads : GiveIdLoad(t)
    \/ \E t \in Threads : GiveIdAdd(t)
    \/ PawnClone
    \/ PawnDrop

SpecPawn == InitPawn /\ [][NextPawn]_vars

\* C28: whatever the sequence or interleaving of Pawn::new calls, clones and
\* drops, a Pawn made by Pawn::new has a player ID in {0, 1} that no other
\* living Pawn made by Pawn::new has, and Pawn::new returns Err when two such
\* Pawns are alive.
C28_IdsOfLivePawnsDiffer ==
    /\ \A p \in AliveNew :
        /\ p.player_id \in {0, 1}
        /\ pawns[p] = 1
    /\ (new_ret # None /\ new_ret[2] >= 2) => new_ret[1] = "Err"

-----------------------------------------------------------------------------
(* day 15: the width of the accumulated risk *)

\* the cell the loop over the directions is about to look at, if there is one
NextCell == get(matrix, Coordinate_add(cur[2], direction_list[dir]))

\* acc_risk + *risk as u16, as a number
NextSum == cur[1] + Unwrap(NextCell).risk

\* the grid has costs in 0..9 and 9 * (rows + cols) < u16::MAX
FitsU16(m) ==
    /\ \A c \in Cells(m) : Unwrap(get(m, c)).risk \in 0..9
    /\ 9 * (num_rows(m) + num_cols(m)) < MinRiskMAX

\* C30: on a grid with costs in 0..9 and 9 * (rows + cols) < 65535 every
\* sum acc_risk + risk computed in lowest_risk is at most the minimum cost
\* the call returns plus 9, so the u16 addition does not overflow and no
\* cost reaches u16::MAX.
C30_SumsWithinNineOfMinimum ==
    (rpc = "dirs" /\ IsSome(NextCell) /\ FitsU16(matrix)) =>
        /\ NextSum <= MinCostTo(matrix, end_coord) + 9
        /\ MinCostTo(matrix, end_coord) + 9 <= 9 * (num_rows(matrix) + num_cols(matrix))
        /\ NextSum < MinRiskMAX
        /\ WrapU16(NextSum) = NextSum

\* a sum of exactly the minimum cost plus 9 is about to be computed, on a
\* grid whose minimum cost is not 0
C30_Witness ==
    /\ rpc = "dirs"
    /\ IsSome(NextCell)
    /\ MinCostTo(matrix, end_coord) > 0
    /\ NextSum = MinCostTo(matrix, end_coord) + 9

====
